---------------------------- MODULE Spec2Model ----------------------------
(***************************************************************************)
(* The lot-rebuild engine of the Family Investment Ledger (src/Code.js,    *)
(* rebuildLots): the Trades and LotActions tables are merged into one      *)
(* event list, sorted, and replayed against the lot store; the open lots   *)
(* and the consumption records are then written to Lots_Current and        *)
(* LotConsumes.                                                            *)
(*                                                                         *)
(* Numbers are JavaScript numbers.  A number is a record [n, d] read as    *)
(* the fraction n / d in lowest terms with d > 0, and with d = 0 for the   *)
(* three special values: [1,0] = Infinity, [-1,0] = -Infinity and          *)
(* [0,0] = NaN.  Arithmetic on finite values is exact: binary rounding of  *)
(* the double format is not modelled (negative zero neither).              *)
(***************************************************************************)
EXTENDS Integers, Sequences, FiniteSets, TLC

VARIABLES
    Trades,        \* the Trades table (input sheet), a sequence of rows
    LotActions,    \* the LotActions table (input sheet), a sequence of rows
    Lots_Current,  \* the published Lots_Current table
    LotConsumes,   \* the published LotConsumes table
    pc,            \* position of rebuildLots: idle, replay, wrote_lots, done, aborted
    events,        \* the merged, sorted event list
    cursor,        \* index of the next event events.forEach hands to the callback
    lots,          \* the lot store
    consumes,      \* the consumption ledger
    lotSeq,        \* next lot number
    consumeSeq,    \* next consumption record number
    run,           \* how many times rebuildLots has been started
    Config,        \* the Config table (input sheet): one row per asset class
    Gains_Realized,\* the published Gains_Realized table
    viewSheets,    \* the view sheets the spreadsheet has
    writtenIn,     \* for each other derived sheet, the run that wrote it last
    returned,      \* how many of the calls after rebuildLots() have returned
    Tax_Summary_FY,\* the published Tax_Summary_FY table
    CashMovements, \* the CashMovements table (input sheet), a sequence of rows
    RBI_180_Ageing \* the published RBI_180_Ageing table

cashVars == <<CashMovements, RBI_180_Ageing>>

derivedVars ==
    <<Config, Gains_Realized, viewSheets, writtenIn, returned, Tax_Summary_FY, cashVars>>

vars == <<Trades, LotActions, Lots_Current, LotConsumes, pc, events, cursor,
          lots, consumes, lotSeq, consumeSeq, run, derivedVars>>

---------------------------------------------------------------------------
(* JavaScript numbers *)

Abs(i) == IF i < 0 THEN -i ELSE i

Sign(i) == IF i < 0 THEN -1 ELSE IF i > 0 THEN 1 ELSE 0

RECURSIVE GCD(_, _)
GCD(a, b) == IF b = 0 THEN a ELSE GCD(b, a % b)

\* the number n / d (d >= 0), in lowest terms
Norm(n, d) ==
    IF d = 0 THEN [n |-> Sign(n), d |-> 0]
    ELSE LET g == GCD(Abs(n), d) IN [n |-> n \div g, d |-> d \div g]

NaN == [n |-> 0, d |-> 0]

Infinity == [n |-> 1, d |-> 0]

Num(i) == [n |-> i, d |-> 1]

Zero == Num(0)

One == Num(1)

IsNaN(a) == a.d = 0 /\ a.n = 0

IsFinite(a) == a.d # 0

Mul(a, b) == Norm(a.n * b.n, a.d * b.d)

Div(a, b) ==
    IF b.n < 0 THEN Norm(-(a.n * b.d), a.d * (-b.n))
    ELSE Norm(a.n * b.d, a.d * b.n)

Neg(a) == [n |-> -a.n, d |-> a.d]

Add(a, b) ==
    IF IsNaN(a) \/ IsNaN(b) THEN NaN
    ELSE IF a.d = 0 /\ b.d = 0 THEN (IF a.n = b.n THEN a ELSE NaN)
    ELSE IF a.d = 0 THEN a
    ELSE IF b.d = 0 THEN b
    ELSE Norm(a.n * b.d + b.n * a.d, a.d * b.d)

Sub(a, b) == Add(a, Neg(b))

\* a < b; every comparison with NaN is false
Lt(a, b) ==
    IF IsNaN(a) \/ IsNaN(b) THEN FALSE
    ELSE IF a.d = 0 /\ b.d = 0 THEN a.n < b.n
    ELSE a.n * b.d < b.n * a.d

Gt(a, b) == Lt(b, a)

Le(a, b) == ~IsNaN(a) /\ ~IsNaN(b) /\ ~Lt(b, a)

Ge(a, b) == Le(b, a)

\* a === b on numbers: NaN equals nothing
NumEq(a, b) == ~IsNaN(a) /\ ~IsNaN(b) /\ a = b

MathMin(a, b) ==
    IF IsNaN(a) \/ IsNaN(b) THEN NaN ELSE IF Lt(b, a) THEN b ELSE a

MathFloor(a) == IF a.d = 0 THEN a ELSE Num(a.n \div a.d)

\* x || 1 on a number: 0 and NaN are falsy
OrOne(a) == IF IsNaN(a) \/ a = Zero THEN One ELSE a

\* A sheet cell holds a number, nothing, or a text that is no number.
NumCell(i) == [t |-> "number", n |-> i, d |-> 1]

BlankCell == [t |-> "blank", n |-> 0, d |-> 1]

TextCell == [t |-> "string", n |-> 0, d |-> 0]

\* Number(cell): the number itself, 0 for an empty cell, NaN for a text
Number(c) ==
    IF c.t = "number" THEN Norm(c.n, c.d)
    ELSE IF c.t = "blank" THEN Zero
    ELSE NaN

\* new Date(cell) as the number it subtracts as: a day count in milliseconds
NewDate(day) == day * 86400000

---------------------------------------------------------------------------
(* Array.prototype.sort as the V8 runtime of Apps Script and Node runs it   *)
(* on an array shorter than 64 elements: the longest initial run is found   *)
(* (and reversed when strictly descending), and the rest is inserted by     *)
(* binary insertion.  A comparator result of NaN counts as 0.               *)

\* priority table of the event sort
order ==
    [BUY |-> 1, SPLIT |-> 2, BONUS |-> 2, MERGER |-> 3, SELL |-> 4,
     GIFT |-> 5, TRANSFER |-> 6]

\* (a, b) => a.Date - b.Date || order[a.Type] - order[b.Type]
\* order[T] is undefined for a type outside the table: the difference is NaN
EventCompare(a, b) ==
    IF a.Date - b.Date # 0 THEN Num(a.Date - b.Date)
    ELSE IF a.Type \in DOMAIN order /\ b.Type \in DOMAIN order
         THEN Num(order[a.Type] - order[b.Type])
         ELSE NaN

\* the queue comparator with its operands swapped: latest lot first
LotCompareReversed(a, b) == Num(NewDate(b.BuyDate) - NewDate(a.BuyDate))

\* (a, b) => new Date(a.BuyDate) - new Date(b.BuyDate)
LotCompare(a, b) == Num(NewDate(a.BuyDate) - NewDate(b.BuyDate))

\* (a, b) => new Date(a.TxnDate) - new Date(b.TxnDate)
CashCompare(a, b) == Num(NewDate(a.TxnDate) - NewDate(b.TxnDate))

\* the comparator as the sort calls it: NaN becomes 0
Cmp(kind, a, b) ==
    LET v == IF kind = "events" THEN EventCompare(a, b)
             ELSE IF kind = "cash" THEN CashCompare(a, b)
             ELSE LotCompare(a, b)
    IN  IF IsNaN(v) THEN 0 ELSE Sign(v.n)

Reverse(s) == [i \in 1..Len(s) |-> s[Len(s) + 1 - i]]

\* length of the initial run of s (Len(s) >= 2)
CountRun(kind, s) ==
    LET desc == Cmp(kind, s[2], s[1]) < 0
        RECURSIVE Ext(_)
        Ext(len) ==
            IF len < Len(s)
               /\ (IF desc THEN Cmp(kind, s[len + 1], s[len]) < 0
                           ELSE Cmp(kind, s[len + 1], s[len]) >= 0)
            THEN Ext(len + 1)
            ELSE len
    IN  Ext(2)

\* s with its initial run made ascending
MakeRun(kind, s) ==
    LET len == CountRun(kind, s)
    IN  IF Cmp(kind, s[2], s[1]) < 0
        THEN Reverse(SubSeq(s, 1, len)) \o SubSeq(s, len + 1, Len(s))
        ELSE s

RECURSIVE BinaryInsertionSort(_, _, _)
\* s[1..start-1] is sorted; inserts s[start], s[start+1], ... in turn
BinaryInsertionSort(kind, s, start) ==
    IF start > Len(s) THEN s
    ELSE LET pivot == s[start]
             RECURSIVE Search(_, _)
             Search(left, right) ==
                 IF left < right
                 THEN LET mid == left + ((right - left) \div 2)
                      IN  IF Cmp(kind, pivot, s[mid]) < 0
                          THEN Search(left, mid)
                          ELSE Search(mid + 1, right)
                 ELSE left
             pos == Search(1, start)
             t == [i \in 1..Len(s) |->
                      IF i < pos THEN s[i]
                      ELSE IF i = pos THEN pivot
                      ELSE IF i <= start THEN s[i - 1]
                      ELSE s[i]]
         IN  BinaryInsertionSort(kind, t, start + 1)

ArraySort(kind, s) ==
    IF Len(s) < 2 THEN s
    ELSE BinaryInsertionSort(kind, MakeRun(kind, s), CountRun(kind, s) + 1)

---------------------------------------------------------------------------
(* The security directory and the event list *)

\* the Securities table, keyed by SecurityId
secs ==
    [X |-> [SecurityId |-> "X", AssetId |-> "A1", AssetClass |-> "EQUITY"],
     Y |-> [SecurityId |-> "Y", AssetId |-> "A1", AssetClass |-> "EQUITY"]]

\* secs[id] is undefined: reading .AssetId of it throws a TypeError
Undefined(id) == id \notin DOMAIN secs

TradeEvent(t) == [Type |-> t.Side, Date |-> NewDate(t.TradeDate), Data |-> t]

ActionEvent(a) == [Type |-> a.ActionType, Date |-> NewDate(a.ActionDate), Data |-> a]

\* trades first, then actions, then sorted
NormalizeEvents(trades, actions) ==
    ArraySort("events",
              [i \in 1..Len(trades) |-> TradeEvent(trades[i])]
              \o [i \in 1..Len(actions) |-> ActionEvent(actions[i])])

---------------------------------------------------------------------------
(* The lot store.  A lot object is the element of lots at a fixed index     *)
(* (lots are pushed and never removed); a queue is a list of such indices.  *)

\* the queue matched by asset: the open lots of owner under the asset of
\* securityId, whatever their security
openLotsByAsset(ls, owner, securityId) ==
    LET Open(l) ==
            l.OwnerId = owner /\ l.AssetId = secs[securityId].AssetId /\ Gt(l.OpenQty, Zero)
        f[i \in 0..Len(ls)] ==
            IF i = 0 THEN <<>>
            ELSE IF Open(ls[i]) THEN Append(f[i - 1], [ref |-> i, BuyDate |-> ls[i].BuyDate])
            ELSE f[i - 1]
        sorted == ArraySort("lots", f[Len(ls)])
    IN  [i \in 1..Len(sorted) |-> sorted[i].ref]

\* the queue without the owner test: the open lots of securityId of any owner
openLotsOfAnyOwner(ls, owner, securityId) ==
    LET Open(l) == l.SecurityId = securityId /\ Gt(l.OpenQty, Zero)
        f[i \in 0..Len(ls)] ==
            IF i = 0 THEN <<>>
            ELSE IF Open(ls[i]) THEN Append(f[i - 1], [ref |-> i, BuyDate |-> ls[i].BuyDate])
            ELSE f[i - 1]
        sorted == ArraySort("lots", f[Len(ls)])
    IN  [i \in 1..Len(sorted) |-> sorted[i].ref]

\* the queue without the open-quantity test: closed lots are walked too
openLotsIncludingClosed(ls, owner, securityId) ==
    LET Open(l) == l.OwnerId = owner /\ l.SecurityId = securityId
        f[i \in 0..Len(ls)] ==
            IF i = 0 THEN <<>>
            ELSE IF Open(ls[i]) THEN Append(f[i - 1], [ref |-> i, BuyDate |-> ls[i].BuyDate])
            ELSE f[i - 1]
        sorted == ArraySort("lots", f[Len(ls)])
    IN  [i \in 1..Len(sorted) |-> sorted[i].ref]

\* lots.filter(...).sort(...): the open lots of (owner, securityId), by BuyDate
openLotsBySecurity(ls, owner, securityId) ==
    LET Open(l) == l.OwnerId = owner /\ l.SecurityId = securityId /\ Gt(l.OpenQty, Zero)
        f[i \in 0..Len(ls)] ==
            IF i = 0 THEN <<>>
            ELSE IF Open(ls[i]) THEN Append(f[i - 1], [ref |-> i, BuyDate |-> ls[i].BuyDate])
            ELSE f[i - 1]
        sorted == ArraySort("lots", f[Len(ls)])
    IN  [i \in 1..Len(sorted) |-> sorted[i].ref]

\* lots.filter(l => l.SecurityId === securityId && l.OpenQty > 0), as indices
openLotsOfSecurity(ls, securityId) ==
    LET f[i \in 0..Len(ls)] ==
            IF i = 0 THEN <<>>
            ELSE IF ls[i].SecurityId = securityId /\ Gt(ls[i].OpenQty, Zero)
                 THEN Append(f[i - 1], i)
                 ELSE f[i - 1]
    IN  f[Len(ls)]

Store(ls, cs, lseq, cseq) == [lots |-> ls, consumes |-> cs, lotSeq |-> lseq, consumeSeq |-> cseq]

NewLot(lotId, owner, sec, asset, buyDate, qty, cost, price, costINR, fx, broker, account) ==
    [LotId |-> lotId, OwnerId |-> owner, SecurityId |-> sec, AssetId |-> asset,
     BuyDate |-> buyDate, OpenQty |-> qty, CostNative |-> cost,
     CostPriceNative |-> price, CostINR |-> costINR, BuyFXRate |-> fx,
     BrokerId |-> broker, AccountId |-> account]

\* a push that does not advance the lot counter
PushLotReusingNumber(st, lot) == [st EXCEPT !.lots = Append(@, lot)]

PushLot(st, lot) == [st EXCEPT !.lots = Append(@, lot), !.lotSeq = @ + 1]

---------------------------------------------------------------------------
(* The mutation rules, one per event type.  st is the engine's state        *)
(* (lots, consumes, lotSeq, consumeSeq) and d the event's row.              *)

\* a BUY that stores the per-share price as the lot's aggregate cost
ApplyBUYCostingOneShare(st, d) ==
    LET qty == Number(d.Quantity)
        price == Number(d.Price)
        fx == Number(d.FXRateToINR)
        assetId == secs[d.SecurityId].AssetId
    IN  PushLot(st, NewLot(st.lotSeq, d.OwnerId, d.SecurityId, assetId, d.TradeDate,
                           qty, price, price, Mul(price, fx), fx,
                           d.BrokerId, d.AccountId))

ApplyBUY(st, d) ==
    LET qty == Number(d.Quantity)
        price == Number(d.Price)
        fx == Number(d.FXRateToINR)
        assetId == secs[d.SecurityId].AssetId
    IN  PushLot(st, NewLot(st.lotSeq, d.OwnerId, d.SecurityId, assetId, d.TradeDate,
                           qty, Mul(qty, price), price, Mul(Mul(qty, price), fx), fx,
                           d.BrokerId, d.AccountId))

\* lots.filter(l => l.AssetId === fromAssetId && l.SecurityId === fromSec && l.OpenQty > 0)
reorgSourceLots(ls, fromAssetId, fromSec) ==
    LET f[i \in 0..Len(ls)] ==
            IF i = 0 THEN <<>>
            ELSE IF ls[i].AssetId = fromAssetId /\ ls[i].SecurityId = fromSec
                    /\ Gt(ls[i].OpenQty, Zero)
                 THEN Append(f[i - 1], i)
                 ELSE f[i - 1]
    IN  f[Len(ls)]

RECURSIVE ReorgEachDatedAtReorg(_, _, _)
\* a CLASS_REORG whose new lots take the date of the reorganisation
ReorgEachDatedAtReorg(st, refs, d) ==
    IF refs = <<>> THEN st
    ELSE LET numerator == OrOne(Number(d.SplitNumerator))
             denominator == OrOne(Number(d.SplitDenominator))
             qtyRatio == Div(numerator, denominator)
             costRatioNew == Div(qtyRatio, Add(One, qtyRatio))
             costRatioOriginal == Sub(One, costRatioNew)
             ref == Head(refs)
             lot == st.lots[ref]
             newQty == Mul(lot.OpenQty, qtyRatio)
             newCostNative == Mul(lot.CostNative, costRatioNew)
             newCostINR == Mul(lot.CostINR, costRatioNew)
             pushed == PushLot(st, NewLot(st.lotSeq, lot.OwnerId, d.SecurityToId,
                                  secs[d.SecurityToId].AssetId, d.ActionDate, newQty,
                                  newCostNative,
                                  IF Gt(newQty, Zero) THEN Div(newCostNative, newQty) ELSE Zero,
                                  newCostINR, lot.BuyFXRate, lot.BrokerId, lot.AccountId))
             costNative == Mul(lot.CostNative, costRatioOriginal)
             reduced == [lot EXCEPT !.CostNative = costNative,
                                    !.CostINR = Mul(lot.CostINR, costRatioOriginal),
                                    !.CostPriceNative =
                                        IF Gt(lot.OpenQty, Zero)
                                        THEN Div(costNative, lot.OpenQty) ELSE Zero]
         IN  ReorgEachDatedAtReorg([pushed EXCEPT !.lots[ref] = reduced], Tail(refs), d)

RECURSIVE ReorgEachSplittingByQuantity(_, _, _)
\* a CLASS_REORG that gives the new lot the share ratio of the cost, not
\* ratio / (1 + ratio), while the source keeps 1 - ratio / (1 + ratio)
ReorgEachSplittingByQuantity(st, refs, d) ==
    IF refs = <<>> THEN st
    ELSE LET numerator == OrOne(Number(d.SplitNumerator))
             denominator == OrOne(Number(d.SplitDenominator))
             qtyRatio == Div(numerator, denominator)
             costRatioNew == qtyRatio
             costRatioOriginal == Sub(One, Div(qtyRatio, Add(One, qtyRatio)))
             ref == Head(refs)
             lot == st.lots[ref]
             newQty == Mul(lot.OpenQty, qtyRatio)
             newCostNative == Mul(lot.CostNative, costRatioNew)
             newCostINR == Mul(lot.CostINR, costRatioNew)
             pushed == PushLot(st, NewLot(st.lotSeq, lot.OwnerId, d.SecurityToId,
                                  secs[d.SecurityToId].AssetId, lot.BuyDate, newQty,
                                  newCostNative,
                                  IF Gt(newQty, Zero) THEN Div(newCostNative, newQty) ELSE Zero,
                                  newCostINR, lot.BuyFXRate, lot.BrokerId, lot.AccountId))
             costNative == Mul(lot.CostNative, costRatioOriginal)
             reduced == [lot EXCEPT !.CostNative = costNative,
                                    !.CostINR = Mul(lot.CostINR, costRatioOriginal),
                                    !.CostPriceNative =
                                        IF Gt(lot.OpenQty, Zero)
                                        THEN Div(costNative, lot.OpenQty) ELSE Zero]
         IN  ReorgEachSplittingByQuantity([pushed EXCEPT !.lots[ref] = reduced], Tail(refs), d)

RECURSIVE ReorgEach(_, _, _)
\* sourceLots.forEach(lot => ...)
ReorgEach(st, refs, d) ==
    IF refs = <<>> THEN st
    ELSE LET numerator == OrOne(Number(d.SplitNumerator))
             denominator == OrOne(Number(d.SplitDenominator))
             qtyRatio == Div(numerator, denominator)
             costRatioNew == Div(qtyRatio, Add(One, qtyRatio))
             costRatioOriginal == Sub(One, costRatioNew)
             ref == Head(refs)
             lot == st.lots[ref]
             newQty == Mul(lot.OpenQty, qtyRatio)
             newCostNative == Mul(lot.CostNative, costRatioNew)
             newCostINR == Mul(lot.CostINR, costRatioNew)
             pushed == PushLot(st, NewLot(st.lotSeq, lot.OwnerId, d.SecurityToId,
                                  secs[d.SecurityToId].AssetId, lot.BuyDate, newQty,
                                  newCostNative,
                                  IF Gt(newQty, Zero) THEN Div(newCostNative, newQty) ELSE Zero,
                                  newCostINR, lot.BuyFXRate, lot.BrokerId, lot.AccountId))
             costNative == Mul(lot.CostNative, costRatioOriginal)
             reduced == [lot EXCEPT !.CostNative = costNative,
                                    !.CostINR = Mul(lot.CostINR, costRatioOriginal),
                                    !.CostPriceNative =
                                        IF Gt(lot.OpenQty, Zero)
                                        THEN Div(costNative, lot.OpenQty) ELSE Zero]
         IN  ReorgEach([pushed EXCEPT !.lots[ref] = reduced], Tail(refs), d)

ApplyCLASS_REORG(st, d) ==
    ReorgEach(st, reorgSourceLots(st.lots, secs[d.SecurityId].AssetId, d.SecurityId), d)

NewConsume(consumeId, d, assetId, lot, used, costNativeUsed, costINRUsed, salePrice, saleFX, proceedsNative, proceedsINR) ==
    [ConsumeId |-> consumeId, TradeId |-> d.TradeId, OwnerId |-> d.OwnerId,
     SecurityId |-> d.SecurityId, AssetId |-> assetId, LotId |-> lot.LotId,
     BuyDate |-> lot.BuyDate, SellDate |-> d.TradeDate, Quantity |-> used,
     CostNative |-> costNativeUsed, CostPriceNative |-> lot.CostPriceNative,
     CostINR |-> costINRUsed, CostFXRate |-> lot.BuyFXRate,
     SalePriceNative |-> salePrice, SaleFXRate |-> saleFX,
     ProceedsNative |-> proceedsNative, ProceedsINR |-> proceedsINR]

\* the consumed amount without the cap at the lot's open quantity
SellUsedUncapped(lot, qty) == qty

\* const used = Math.min(lot.OpenQty, qty)
SellUsed(lot, qty) == MathMin(lot.OpenQty, qty)

\* the fraction with its operands swapped
SellFractionInverted(lot, used) == Div(lot.OpenQty, used)

\* const frac = used / lot.OpenQty
SellFraction(lot, used) == Div(used, lot.OpenQty)

RECURSIVE SellWalk(_, _, _, _)
\* for (const lot of openLotsBySecurity(...)) { if (qty <= 0) break; ... }
SellWalk(st, queue, qty, d) ==
    IF queue = <<>> \/ Le(qty, Zero) THEN st
    ELSE LET ref == Head(queue)
             lot == st.lots[ref]
             salePrice == Number(d.Price)
             saleFX == Number(d.FXRateToINR)
             used == SellUsed(lot, qty)
             frac == SellFraction(lot, used)
             costNativeUsed == Mul(lot.CostNative, frac)
             costINRUsed == Mul(lot.CostINR, frac)
             proceedsNative == Mul(used, salePrice)
             proceedsINR == Mul(proceedsNative, saleFX)
             rec == NewConsume(st.consumeSeq, d, secs[d.SecurityId].AssetId, lot, used,
                               costNativeUsed, costINRUsed, salePrice, saleFX,
                               proceedsNative, proceedsINR)
             after == [lot EXCEPT !.OpenQty = Sub(lot.OpenQty, used),
                                  !.CostNative = Sub(lot.CostNative, costNativeUsed),
                                  !.CostINR = Sub(lot.CostINR, costINRUsed)]
         IN  SellWalk([st EXCEPT !.consumes = Append(@, rec),
                                 !.consumeSeq = @ + 1,
                                 !.lots[ref] = after],
                      Tail(queue), Sub(qty, used), d)

ApplySELL(st, d) ==
    SellWalk(st, openLotsBySecurity(st.lots, d.OwnerId, d.SecurityId),
             Number(d.Quantity), d)

\* a SPLIT without the open-quantity test: closed lots are rescaled too
ApplySPLITOnClosedLots(st, d) ==
    LET factor == Div(Number(d.SplitNumerator), Number(d.SplitDenominator))
    IN  [st EXCEPT !.lots =
            [i \in 1..Len(st.lots) |->
                LET l == st.lots[i]
                IN  IF l.SecurityId = d.SecurityId
                    THEN [l EXCEPT !.OpenQty = Mul(l.OpenQty, factor),
                                   !.CostPriceNative = Div(l.CostPriceNative, factor)]
                    ELSE l]]

\* a SPLIT that scales the aggregate native cost with the quantity
ApplySPLITScalingCost(st, d) ==
    LET factor == Div(Number(d.SplitNumerator), Number(d.SplitDenominator))
    IN  [st EXCEPT !.lots =
            [i \in 1..Len(st.lots) |->
                LET l == st.lots[i]
                IN  IF l.SecurityId = d.SecurityId /\ Gt(l.OpenQty, Zero)
                    THEN [l EXCEPT !.OpenQty = Mul(l.OpenQty, factor),
                                   !.CostNative = Mul(l.CostNative, factor)]
                    ELSE l]]

\* a SPLIT that rescales the lots of one owner only, the owner of the first
\* lot of the security
ApplySPLITOfOneOwner(st, d) ==
    LET factor == Div(Number(d.SplitNumerator), Number(d.SplitDenominator))
        held == openLotsOfSecurity(st.lots, d.SecurityId)
    IN  [st EXCEPT !.lots =
            [i \in 1..Len(st.lots) |->
                LET l == st.lots[i]
                IN  IF /\ l.SecurityId = d.SecurityId
                       /\ Gt(l.OpenQty, Zero)
                       /\ l.OwnerId = st.lots[held[1]].OwnerId
                    THEN [l EXCEPT !.OpenQty = Mul(l.OpenQty, factor),
                                   !.CostPriceNative = Div(l.CostPriceNative, factor)]
                    ELSE l]]

ApplySPLIT(st, d) ==
    LET factor == Div(Number(d.SplitNumerator), Number(d.SplitDenominator))
    IN  [st EXCEPT !.lots =
            [i \in 1..Len(st.lots) |->
                LET l == st.lots[i]
                IN  IF l.SecurityId = d.SecurityId /\ Gt(l.OpenQty, Zero)
                    THEN [l EXCEPT !.OpenQty = Mul(l.OpenQty, factor),
                                   !.CostPriceNative = Div(l.CostPriceNative, factor)]
                    ELSE l]]

RECURSIVE BonusEachKeepingDate(_, _, _)
\* a BONUS whose new lots take the acquisition date of the lot they come from
BonusEachKeepingDate(st, refs, d) ==
    IF refs = <<>> THEN st
    ELSE LET factor == Div(Number(d.SplitNumerator), Number(d.SplitDenominator))
             bonusRatio == Sub(factor, One)
             l == st.lots[Head(refs)]
             bonusQty == Mul(l.OpenQty, bonusRatio)
             next == IF Gt(bonusQty, Zero)
                     THEN PushLot(st, NewLot(st.lotSeq, l.OwnerId, l.SecurityId,
                                      secs[d.SecurityId].AssetId, l.BuyDate, bonusQty,
                                      Zero, Zero, Zero, l.BuyFXRate, l.BrokerId, l.AccountId))
                     ELSE st
         IN  BonusEachKeepingDate(next, Tail(refs), d)

RECURSIVE BonusEach(_, _, _)
\* lotsToProcess.forEach(l => ...)
BonusEach(st, refs, d) ==
    IF refs = <<>> THEN st
    ELSE LET factor == Div(Number(d.SplitNumerator), Number(d.SplitDenominator))
             bonusRatio == Sub(factor, One)
             l == st.lots[Head(refs)]
             bonusQty == Mul(l.OpenQty, bonusRatio)
             next == IF Gt(bonusQty, Zero)
                     THEN PushLot(st, NewLot(st.lotSeq, l.OwnerId, l.SecurityId,
                                      secs[d.SecurityId].AssetId, d.ActionDate, bonusQty,
                                      Zero, Zero, Zero, l.BuyFXRate, l.BrokerId, l.AccountId))
                     ELSE st
         IN  BonusEach(next, Tail(refs), d)

ApplyBONUS(st, d) == BonusEach(st, openLotsOfSecurity(st.lots, d.SecurityId), d)

\* a MERGER that also renames the security in the consumption records
ApplyMERGERRenamingRecords(st, d) ==
    LET ratio == Div(Number(d.SplitNumerator), Number(d.SplitDenominator))
        toAssetId == secs[d.SecurityToId].AssetId
    IN  [st EXCEPT !.lots =
            [i \in 1..Len(st.lots) |->
                LET l == st.lots[i]
                    newQty == MathFloor(Mul(l.OpenQty, ratio))
                IN  IF l.SecurityId = d.SecurityId /\ Gt(l.OpenQty, Zero)
                    THEN [l EXCEPT !.SecurityId = d.SecurityToId,
                                   !.AssetId = toAssetId,
                                   !.CostPriceNative = Div(l.CostNative, newQty),
                                   !.OpenQty = newQty]
                    ELSE l],
                   !.consumes =
            [i \in 1..Len(st.consumes) |->
                IF st.consumes[i].SecurityId = d.SecurityId
                THEN [st.consumes[i] EXCEPT !.SecurityId = d.SecurityToId]
                ELSE st.consumes[i]]]

\* a MERGER that keeps the fraction of a share instead of flooring
ApplyMERGERKeepingFraction(st, d) ==
    LET ratio == Div(Number(d.SplitNumerator), Number(d.SplitDenominator))
        toAssetId == secs[d.SecurityToId].AssetId
    IN  [st EXCEPT !.lots =
            [i \in 1..Len(st.lots) |->
                LET l == st.lots[i]
                    newQty == Mul(l.OpenQty, ratio)
                IN  IF l.SecurityId = d.SecurityId /\ Gt(l.OpenQty, Zero)
                    THEN [l EXCEPT !.SecurityId = d.SecurityToId,
                                   !.AssetId = toAssetId,
                                   !.CostPriceNative = Div(l.CostNative, newQty),
                                   !.OpenQty = newQty]
                    ELSE l]]

ApplyMERGER(st, d) ==
    LET ratio == Div(Number(d.SplitNumerator), Number(d.SplitDenominator))
        toAssetId == secs[d.SecurityToId].AssetId
    IN  [st EXCEPT !.lots =
            [i \in 1..Len(st.lots) |->
                LET l == st.lots[i]
                    newQty == MathFloor(Mul(l.OpenQty, ratio))
                IN  IF l.SecurityId = d.SecurityId /\ Gt(l.OpenQty, Zero)
                    THEN [l EXCEPT !.SecurityId = d.SecurityToId,
                                   !.AssetId = toAssetId,
                                   !.CostPriceNative = Div(l.CostNative, newQty),
                                   !.OpenQty = newQty]
                    ELSE l]]

RECURSIVE GiftWalkDatedAtGift(_, _, _, _)
\* a GIFT whose new lots take the date of the gift
GiftWalkDatedAtGift(st, queue, qty, d) ==
    IF queue = <<>> \/ Le(qty, Zero) THEN st
    ELSE LET ref == Head(queue)
             lot == st.lots[ref]
             move == MathMin(lot.OpenQty, qty)
             frac == Div(move, lot.OpenQty)
             costNativeMove == Mul(lot.CostNative, frac)
             costINRMove == Mul(lot.CostINR, frac)
             pushed == PushLot(st, NewLot(st.lotSeq, d.OwnerToId, lot.SecurityId,
                                  secs[d.SecurityId].AssetId, d.ActionDate, move,
                                  costNativeMove, lot.CostPriceNative, costINRMove,
                                  lot.BuyFXRate, d.BrokerToId, d.AccountToId))
             after == [lot EXCEPT !.OpenQty = Sub(lot.OpenQty, move),
                                  !.CostNative = Sub(lot.CostNative, costNativeMove),
                                  !.CostINR = Sub(lot.CostINR, costINRMove)]
         IN  GiftWalkDatedAtGift([pushed EXCEPT !.lots[ref] = after], Tail(queue),
                                 Sub(qty, move), d)

RECURSIVE GiftWalkKeepingDonorCost(_, _, _, _)
\* a GIFT that reduces the donor lot's quantity but not its cost
GiftWalkKeepingDonorCost(st, queue, qty, d) ==
    IF queue = <<>> \/ Le(qty, Zero) THEN st
    ELSE LET ref == Head(queue)
             lot == st.lots[ref]
             move == MathMin(lot.OpenQty, qty)
             frac == Div(move, lot.OpenQty)
             costNativeMove == Mul(lot.CostNative, frac)
             costINRMove == Mul(lot.CostINR, frac)
             pushed == PushLot(st, NewLot(st.lotSeq, d.OwnerToId, lot.SecurityId,
                                  secs[d.SecurityId].AssetId, lot.BuyDate, move,
                                  costNativeMove, lot.CostPriceNative, costINRMove,
                                  lot.BuyFXRate, d.BrokerToId, d.AccountToId))
             after == [lot EXCEPT !.OpenQty = Sub(lot.OpenQty, move)]
         IN  GiftWalkKeepingDonorCost([pushed EXCEPT !.lots[ref] = after], Tail(queue), Sub(qty, move), d)

RECURSIVE GiftWalkLive(_, _, _, _)
\* a GIFT that walks the live lot array: a lot it has spawned for the owner it
\* takes from joins the end of the queue
GiftWalkLive(st, queue, qty, d) ==
    IF queue = <<>> \/ Le(qty, Zero) THEN st
    ELSE LET ref == Head(queue)
             lot == st.lots[ref]
             move == MathMin(lot.OpenQty, qty)
             frac == Div(move, lot.OpenQty)
             costNativeMove == Mul(lot.CostNative, frac)
             costINRMove == Mul(lot.CostINR, frac)
             pushed == PushLot(st, NewLot(st.lotSeq, d.OwnerToId, lot.SecurityId,
                                  secs[d.SecurityId].AssetId, lot.BuyDate, move,
                                  costNativeMove, lot.CostPriceNative, costINRMove,
                                  lot.BuyFXRate, d.BrokerToId, d.AccountToId))
             after == [lot EXCEPT !.OpenQty = Sub(lot.OpenQty, move),
                                  !.CostNative = Sub(lot.CostNative, costNativeMove),
                                  !.CostINR = Sub(lot.CostINR, costINRMove)]
             rest == IF d.OwnerToId = d.OwnerFromId
                     THEN Append(Tail(queue), Len(pushed.lots))
                     ELSE Tail(queue)
         IN  GiftWalkLive([pushed EXCEPT !.lots[ref] = after], rest, Sub(qty, move), d)

RECURSIVE GiftWalk(_, _, _, _)
GiftWalk(st, queue, qty, d) ==
    IF queue = <<>> \/ Le(qty, Zero) THEN st
    ELSE LET ref == Head(queue)
             lot == st.lots[ref]
             move == MathMin(lot.OpenQty, qty)
             frac == Div(move, lot.OpenQty)
             costNativeMove == Mul(lot.CostNative, frac)
             costINRMove == Mul(lot.CostINR, frac)
             pushed == PushLot(st, NewLot(st.lotSeq, d.OwnerToId, lot.SecurityId,
                                  secs[d.SecurityId].AssetId, lot.BuyDate, move,
                                  costNativeMove, lot.CostPriceNative, costINRMove,
                                  lot.BuyFXRate, d.BrokerToId, d.AccountToId))
             after == [lot EXCEPT !.OpenQty = Sub(lot.OpenQty, move),
                                  !.CostNative = Sub(lot.CostNative, costNativeMove),
                                  !.CostINR = Sub(lot.CostINR, costINRMove)]
         IN  GiftWalk([pushed EXCEPT !.lots[ref] = after], Tail(queue), Sub(qty, move), d)

ApplyGIFT(st, d) ==
    GiftWalk(st, openLotsBySecurity(st.lots, d.OwnerFromId, d.SecurityId),
             Number(d.Quantity), d)

\* a TRANSFER that spawns a lot for every lot it walks, as a GIFT does
TransferWalkAlwaysSplitting(st, queue, qty, d) == GiftWalk(st, queue, qty, d)

RECURSIVE TransferWalkKeepingSource(_, _, _, _)
\* a TRANSFER whose partial branch forgets to reduce the source lot
TransferWalkKeepingSource(st, queue, qty, d) ==
    IF queue = <<>> \/ Le(qty, Zero) THEN st
    ELSE LET ref == Head(queue)
             lot == st.lots[ref]
             move == MathMin(lot.OpenQty, qty)
             frac == Div(move, lot.OpenQty)
             pushed == PushLot(st, NewLot(st.lotSeq, d.OwnerToId, lot.SecurityId,
                                  secs[d.SecurityId].AssetId, lot.BuyDate, move,
                                  Mul(lot.CostNative, frac), lot.CostPriceNative,
                                  Mul(lot.CostINR, frac), lot.BuyFXRate,
                                  d.BrokerToId, d.AccountToId))
             full == [lot EXCEPT !.OwnerId = d.OwnerToId,
                                 !.BrokerId = d.BrokerToId,
                                 !.AccountId = d.AccountToId]
             next == IF Lt(move, lot.OpenQty)
                     THEN pushed
                     ELSE [st EXCEPT !.lots[ref] = full]
         IN  TransferWalkKeepingSource(next, Tail(queue), Sub(qty, move), d)

RECURSIVE TransferWalk(_, _, _, _)
TransferWalk(st, queue, qty, d) ==
    IF queue = <<>> \/ Le(qty, Zero) THEN st
    ELSE LET ref == Head(queue)
             lot == st.lots[ref]
             move == MathMin(lot.OpenQty, qty)
             frac == Div(move, lot.OpenQty)
             costNativeMove == Mul(lot.CostNative, frac)
             costINRMove == Mul(lot.CostINR, frac)
             pushed == PushLot(st, NewLot(st.lotSeq, d.OwnerToId, lot.SecurityId,
                                  secs[d.SecurityId].AssetId, lot.BuyDate, move,
                                  costNativeMove, lot.CostPriceNative, costINRMove,
                                  lot.BuyFXRate, d.BrokerToId, d.AccountToId))
             partial == [lot EXCEPT !.OpenQty = Sub(lot.OpenQty, move),
                                    !.CostNative = Sub(lot.CostNative, costNativeMove),
                                    !.CostINR = Sub(lot.CostINR, costINRMove)]
             full == [lot EXCEPT !.OwnerId = d.OwnerToId,
                                 !.BrokerId = d.BrokerToId,
                                 !.AccountId = d.AccountToId]
             next == IF Lt(move, lot.OpenQty)
                     THEN [pushed EXCEPT !.lots[ref] = partial]
                     ELSE [st EXCEPT !.lots[ref] = full]
         IN  TransferWalk(next, Tail(queue), Sub(qty, move), d)

\* a TRANSFER that walks the lots of the receiving owner
ApplyTRANSFERFromRecipient(st, d) ==
    TransferWalk(st, openLotsBySecurity(st.lots, d.OwnerToId, d.SecurityId),
                 Number(d.Quantity), d)

ApplyTRANSFER(st, d) ==
    TransferWalk(st, openLotsBySecurity(st.lots, d.OwnerFromId, d.SecurityId),
                 Number(d.Quantity), d)

\* a callback that looks the security up whatever the type tag
ThrowsOnAnyTag(e) == Undefined(e.Data.SecurityId)

\* the TypeError of secs[...].AssetId on a security the directory lacks;
\* SPLIT reads no directory entry, MERGER only the target's
Throws(e) ==
    CASE e.Type \in {"BUY", "SELL", "BONUS", "GIFT", "TRANSFER"} -> Undefined(e.Data.SecurityId)
      [] e.Type = "CLASS_REORG" -> Undefined(e.Data.SecurityId) \/ Undefined(e.Data.SecurityToId)
      [] e.Type = "MERGER" -> Undefined(e.Data.SecurityToId)
      [] OTHER -> FALSE

\* the lot store published whole, closed lots included
finalLotsUnfiltered(ls) == ls

\* const finalLots = lots.filter(l => l.OpenQty > 0)
finalLots(ls) ==
    LET f[i \in 0..Len(ls)] ==
            IF i = 0 THEN <<>>
            ELSE IF Gt(ls[i].OpenQty, Zero) THEN Append(f[i - 1], ls[i]) ELSE f[i - 1]
    IN  f[Len(ls)]

\* the callback of events.forEach: the one rule whose type test matches
ApplyEvent(st, e) ==
    CASE e.Type = "BUY" -> ApplyBUY(st, e.Data)
      [] e.Type = "CLASS_REORG" -> ApplyCLASS_REORG(st, e.Data)
      [] e.Type = "SELL" -> ApplySELL(st, e.Data)
      [] e.Type = "SPLIT" -> ApplySPLIT(st, e.Data)
      [] e.Type = "BONUS" -> ApplyBONUS(st, e.Data)
      [] e.Type = "MERGER" -> ApplyMERGER(st, e.Data)
      [] e.Type = "GIFT" -> ApplyGIFT(st, e.Data)
      [] e.Type = "TRANSFER" -> ApplyTRANSFER(st, e.Data)
      [] OTHER -> st

RECURSIVE Replay(_, _)
\* events.forEach(e => ...) run to its end on a list of events
Replay(st, es) ==
    IF es = <<>> THEN st ELSE Replay(ApplyEvent(st, Head(es)), Tail(es))

---------------------------------------------------------------------------
(* Input rows *)

\* rows a table may hold in all
MaxRows == 3

\* rows the LotActions table may hold
MaxActions == 2

\* times rebuildLots may be started
MaxRuns == 2

Dates == {1, 2}

Owners == {"A", "B"}

Quantities == {40, 100}

\* the price and FX rate of a trade, by side
PriceOf(side) == IF side = "BUY" THEN 10 ELSE 15

FXOf(side) == IF side = "BUY" THEN 80 ELSE 82

Trade(date, owner, sec, side, qty, price, fx) ==
    [TradeId |-> 0, TradeDate |-> date, OwnerId |-> owner, BrokerId |-> "b1",
     AccountId |-> "a1", SecurityId |-> sec, Side |-> side, Quantity |-> qty,
     Price |-> price, FXRateToINR |-> fx]

LotAction(type, date, from, to, sec, secTo, num, den, qty) ==
    [ActionId |-> 0, ActionDate |-> date, ActionType |-> type,
     OwnerFromId |-> from, OwnerToId |-> to,
     BrokerFromId |-> "b1", BrokerToId |-> "b2",
     AccountFromId |-> "a1", AccountToId |-> "a2",
     SecurityId |-> sec, SecurityToId |-> secTo,
     SplitNumerator |-> num, SplitDenominator |-> den, Quantity |-> qty]

\* a corporate action: no owners, no quantity
Corporate(type, date, sec, secTo, ratio) ==
    LotAction(type, date, "", "", sec, secTo, NumCell(ratio[1]), NumCell(ratio[2]), BlankCell)

\* a GIFT or TRANSFER: no ratio
Movement(type, date, from, to, sec, qty) ==
    LotAction(type, date, from, to, sec, "", BlankCell, BlankCell, NumCell(qty))

\* well-formed trades of security X, one BUY of security Y (same asset), and
\* one BUY of a security the directory lacks
TradeRows ==
    {Trade(dt, o, "X", side, NumCell(q), NumCell(PriceOf(side)), NumCell(FXOf(side))) :
        dt \in Dates, o \in Owners, side \in {"BUY", "SELL"}, q \in Quantities}
    \cup {Trade(1, "A", "Y", "BUY", NumCell(40), NumCell(10), NumCell(80))}
    \cup {Trade(1, "A", "Z", "BUY", NumCell(40), NumCell(10), NumCell(80))}

\* well-formed actions on security X, and one SPLIT of a security the directory lacks
ActionRows ==
    {Corporate("SPLIT", dt, "X", "", r) : dt \in Dates, r \in {<<2, 1>>, <<1, 2>>}}
    \cup {Corporate("BONUS", dt, "X", "", r) : dt \in Dates, r \in {<<2, 1>>, <<1, 1>>}}
    \cup {Corporate("MERGER", dt, "X", "Y", r) : dt \in Dates, r \in {<<1, 2>>, <<1, 50>>}}
    \cup {Corporate("CLASS_REORG", dt, "X", "Y", r) : dt \in Dates, r \in {<<1, 1>>, <<1, 2>>}}
    \cup {Movement("GIFT", dt, "A", "B", "X", q) : dt \in Dates, q \in Quantities}
    \cup {Movement("TRANSFER", dt, "A", to, "X", q) :
            dt \in Dates, to \in Owners, q \in Quantities}
    \cup {Corporate("SPLIT", 1, "Z", "", <<2, 1>>)}

\* a few well-formed trades, trades with a text where a number belongs, and
\* one BUY of a security the directory lacks
MalformedTradeRows ==
    {Trade(1, "A", "X", "BUY", NumCell(40), NumCell(10), NumCell(80)),
     Trade(2, "A", "X", "SELL", NumCell(40), NumCell(15), NumCell(82)),
     Trade(1, "A", "X", "BUY", TextCell, NumCell(10), NumCell(80)),
     Trade(2, "A", "X", "SELL", NumCell(40), TextCell, NumCell(82)),
     Trade(1, "A", "Z", "BUY", NumCell(40), NumCell(10), NumCell(80))}

\* one well-formed action of each type, and actions with a text where a
\* number belongs
MalformedActionRows ==
    {Corporate("SPLIT", 2, "X", "", <<2, 1>>),
     Corporate("BONUS", 2, "X", "", <<2, 1>>),
     Corporate("MERGER", 2, "X", "Y", <<1, 2>>),
     Corporate("CLASS_REORG", 2, "X", "Y", <<1, 1>>),
     Movement("GIFT", 2, "A", "B", "X", 40),
     Movement("TRANSFER", 2, "A", "B", "X", 40),
     LotAction("SPLIT", 2, "", "", "X", "", TextCell, NumCell(1), BlankCell),
     LotAction("GIFT", 2, "A", "B", "X", "", BlankCell, BlankCell, TextCell)}

\* trades for repeated rebuilds: a BUY, a SELL, and one BUY of a security the
\* directory lacks
RerunTradeRows ==
    {Trade(1, "A", "X", "BUY", NumCell(100), NumCell(10), NumCell(80)),
     Trade(2, "A", "X", "SELL", NumCell(40), NumCell(15), NumCell(82)),
     Trade(1, "A", "Z", "BUY", NumCell(40), NumCell(10), NumCell(80))}

\* actions for repeated rebuilds: one of each type
RerunActionRows ==
    {Corporate("SPLIT", 2, "X", "", <<2, 1>>),
     Corporate("BONUS", 2, "X", "", <<2, 1>>),
     Corporate("MERGER", 2, "X", "Y", <<1, 2>>),
     Corporate("CLASS_REORG", 2, "X", "Y", <<1, 1>>),
     Movement("GIFT", 2, "A", "B", "X", 40),
     Movement("TRANSFER", 2, "A", "B", "X", 40)}

---------------------------------------------------------------------------
(* The state machine *)

\* what the output tables hold from an earlier rebuild
PreviousLots ==
    <<NewLot(0, "A", "X", "A1", 0, Num(7), Num(70), Num(10), Num(5600), Num(80), "b1", "a1")>>

PreviousConsumes ==
    <<[ConsumeId |-> 0, TradeId |-> 0, OwnerId |-> "A", SecurityId |-> "X",
       AssetId |-> "A1", LotId |-> 0, BuyDate |-> 0, SellDate |-> 0,
       Quantity |-> Num(1), CostNative |-> Num(10), CostPriceNative |-> Num(10),
       CostINR |-> Num(800), CostFXRate |-> Num(80), SalePriceNative |-> Num(15),
       SaleFXRate |-> Num(82), ProceedsNative |-> Num(15), ProceedsINR |-> Num(1230)]>>

Init ==
    /\ Trades = <<>>
    /\ LotActions = <<>>
    /\ Lots_Current = PreviousLots
    /\ LotConsumes = PreviousConsumes
    /\ pc = "idle"
    /\ events = <<>>
    /\ cursor = 1
    /\ lots = <<>>
    /\ consumes = <<>>
    /\ lotSeq = 1
    /\ consumeSeq = 1
    /\ run = 0
    /\ Config = <<>>
    /\ Gains_Realized = <<>>
    /\ viewSheets = {}
    /\ writtenIn = <<>>
    /\ returned = 0
    /\ Tax_Summary_FY = <<>>
    /\ CashMovements = <<>>
    /\ RBI_180_Ageing = <<>>

\* a row is entered in the Trades sheet
AddTrade(rows) ==
    /\ pc = "idle"
    /\ Len(Trades) + Len(LotActions) < MaxRows
    /\ \E r \in rows : Trades' = Append(Trades, [r EXCEPT !.TradeId = Len(Trades) + 1])
    /\ UNCHANGED <<LotActions, Lots_Current, LotConsumes, pc, events, cursor,
                   lots, consumes, lotSeq, consumeSeq, run, derivedVars>>

\* a row is entered in the LotActions sheet
AddAction(rows) ==
    /\ pc = "idle"
    /\ Len(Trades) + Len(LotActions) < MaxRows
    /\ Len(LotActions) < MaxActions
    /\ \E r \in rows :
          LotActions' = Append(LotActions, [r EXCEPT !.ActionId = Len(LotActions) + 1])
    /\ UNCHANGED <<Trades, Lots_Current, LotConsumes, pc, events, cursor,
                   lots, consumes, lotSeq, consumeSeq, run, derivedVars>>

\* a start that keeps the lot and record counters of the run before
BeginKeepingCounters ==
    /\ pc = "idle"
    /\ run < MaxRuns
    /\ run' = run + 1
    /\ pc' = "replay"
    /\ events' = NormalizeEvents(Trades, LotActions)
    /\ cursor' = 1
    /\ lots' = <<>>
    /\ consumes' = <<>>
    /\ UNCHANGED <<Trades, LotActions, Lots_Current, LotConsumes, lotSeq, consumeSeq, derivedVars>>

\* rebuildLots starts: the tables are read, the events merged and sorted
Begin ==
    /\ pc = "idle"
    /\ run < MaxRuns
    /\ run' = run + 1
    /\ pc' = "replay"
    /\ events' = NormalizeEvents(Trades, LotActions)
    /\ cursor' = 1
    /\ lots' = <<>>
    /\ consumes' = <<>>
    /\ lotSeq' = 1
    /\ consumeSeq' = 1
    /\ UNCHANGED <<Trades, LotActions, Lots_Current, LotConsumes, derivedVars>>

\* a step that publishes the open lots after every event
StepPublishing(type) ==
    /\ pc = "replay"
    /\ cursor <= Len(events)
    /\ events[cursor].Type = type
    /\ ~Throws(events[cursor])
    /\ LET st == ApplyEvent(Store(lots, consumes, lotSeq, consumeSeq), events[cursor])
       IN  /\ lots' = st.lots
           /\ consumes' = st.consumes
           /\ lotSeq' = st.lotSeq
           /\ consumeSeq' = st.consumeSeq
           /\ Lots_Current' = finalLots(st.lots)
    /\ cursor' = cursor + 1
    /\ UNCHANGED <<Trades, LotActions, LotConsumes, pc, events, run, derivedVars>>

\* events.forEach hands the next event, of the given type, to the callback,
\* which runs the matching rule and returns
Step(type) ==
    /\ pc = "replay"
    /\ cursor <= Len(events)
    /\ events[cursor].Type = type
    /\ ~Throws(events[cursor])
    /\ LET st == ApplyEvent(Store(lots, consumes, lotSeq, consumeSeq), events[cursor])
       IN  /\ lots' = st.lots
           /\ consumes' = st.consumes
           /\ lotSeq' = st.lotSeq
           /\ consumeSeq' = st.consumeSeq
    /\ cursor' = cursor + 1
    /\ UNCHANGED <<Trades, LotActions, Lots_Current, LotConsumes, pc, events, run, derivedVars>>

StepBUY == Step("BUY")

StepCLASS_REORG == Step("CLASS_REORG")

StepSELL == Step("SELL")

StepSPLIT == Step("SPLIT")

StepBONUS == Step("BONUS")

StepMERGER == Step("MERGER")

StepGIFT == Step("GIFT")

StepTRANSFER == Step("TRANSFER")

\* events.forEach hands the callback an event none of its tests matches
StepOther ==
    /\ pc = "replay"
    /\ cursor <= Len(events)
    /\ events[cursor].Type \notin
          {"BUY", "SELL", "SPLIT", "BONUS", "MERGER", "CLASS_REORG", "GIFT", "TRANSFER"}
    /\ ~Throws(events[cursor])
    /\ LET st == ApplyEvent(Store(lots, consumes, lotSeq, consumeSeq), events[cursor])
       IN  /\ lots' = st.lots
           /\ consumes' = st.consumes
           /\ lotSeq' = st.lotSeq
           /\ consumeSeq' = st.consumeSeq
    /\ cursor' = cursor + 1
    /\ UNCHANGED <<Trades, LotActions, Lots_Current, LotConsumes, pc, events, run, derivedVars>>

\* the callback throws: rebuildLots ends there, nothing is written
Abort ==
    /\ pc = "replay"
    /\ cursor <= Len(events)
    /\ Throws(events[cursor])
    /\ pc' = "aborted"
    /\ UNCHANGED <<Trades, LotActions, Lots_Current, LotConsumes, events, cursor,
                   lots, consumes, lotSeq, consumeSeq, run, derivedVars>>

\* writeTable("Lots_Current", finalLots)
WriteLots ==
    /\ pc = "replay"
    /\ cursor > Len(events)
    /\ Lots_Current' = finalLots(lots)
    /\ pc' = "wrote_lots"
    /\ UNCHANGED <<Trades, LotActions, LotConsumes, events, cursor,
                   lots, consumes, lotSeq, consumeSeq, run, derivedVars>>

\* a rebuild that returns without writing the consumption ledger
WriteConsumesSkipped ==
    /\ pc = "wrote_lots"
    /\ pc' = "done"
    /\ UNCHANGED <<Trades, LotActions, Lots_Current, LotConsumes, events, cursor,
                   lots, consumes, lotSeq, consumeSeq, run, derivedVars>>

\* writeTable("LotConsumes", consumes)
WriteConsumes ==
    /\ pc = "wrote_lots"
    /\ LotConsumes' = consumes
    /\ pc' = "done"
    /\ UNCHANGED <<Trades, LotActions, Lots_Current, events, cursor,
                   lots, consumes, lotSeq, consumeSeq, run, derivedVars>>

\* the control flow of a started rebuildLots: the event loop hands the next
\* event to the callback, which returns or throws, and after the last event
\* the two tables are written
Proceed ==
    \/ /\ pc = "replay" /\ cursor <= Len(events) /\ ~Throws(events[cursor])
       /\ cursor' = cursor + 1 /\ pc' = pc
    \/ /\ pc = "replay" /\ cursor <= Len(events) /\ Throws(events[cursor])
       /\ cursor' = cursor /\ pc' = "aborted"
    \/ /\ pc = "replay" /\ cursor > Len(events)
       /\ cursor' = cursor /\ pc' = "wrote_lots"
    \/ /\ pc = "wrote_lots"
       /\ cursor' = cursor /\ pc' = "done"

Rebuild ==
    \/ Begin
    \/ StepBUY
    \/ StepCLASS_REORG
    \/ StepSELL
    \/ StepSPLIT
    \/ StepBONUS
    \/ StepMERGER
    \/ StepGIFT
    \/ StepTRANSFER
    \/ Abort
    \/ WriteLots
    \/ WriteConsumes

Next ==
    \/ AddTrade(TradeRows)
    \/ AddAction(ActionRows)
    \/ Rebuild

Spec == Init /\ [][Next]_vars

\* the same machine on tables that may hold a text where a number belongs
NextMalformed ==
    \/ AddTrade(MalformedTradeRows)
    \/ AddAction(MalformedActionRows)
    \/ Rebuild

SpecMalformed == Init /\ [][NextMalformed]_vars

\* the same machine; rebuildLots is one synchronous call, so a started rebuild
\* is never left unfinished
SpecMalformedFair == SpecMalformed /\ WF_<<pc, cursor>>(Proceed)

\* rows with type tags the callback has no rule for: a Side of HOLD, a Side in
\* lower case for a security the directory lacks, an action type DIVIDEND
UnknownTradeRows ==
    {Trade(1, "A", "X", "BUY", NumCell(100), NumCell(10), NumCell(80)),
     Trade(2, "A", "X", "SELL", NumCell(40), NumCell(15), NumCell(82)),
     Trade(1, "A", "X", "HOLD", NumCell(40), NumCell(10), NumCell(80)),
     Trade(2, "A", "Z", "buy", NumCell(40), NumCell(10), NumCell(80)),
     Trade(1, "A", "Z", "BUY", NumCell(40), NumCell(10), NumCell(80))}

UnknownActionRows ==
    RerunActionRows \cup {Corporate("DIVIDEND", 1, "X", "", <<2, 1>>)}

NextUnknown ==
    \/ AddTrade(UnknownTradeRows)
    \/ AddAction(UnknownActionRows)
    \/ Rebuild
    \/ StepOther

SpecUnknown == Init /\ [][NextUnknown]_vars

\* rebuildLots has returned or thrown: the sheets can be edited and the
\* rebuild started again
Return ==
    /\ pc \in {"done", "aborted"}
    /\ pc' = "idle"
    /\ UNCHANGED <<Trades, LotActions, Lots_Current, LotConsumes, events, cursor,
                   lots, consumes, lotSeq, consumeSeq, run, derivedVars>>

\* the rebuild run repeatedly, the input tables edited in between
NextRerun ==
    \/ AddTrade(RerunTradeRows)
    \/ AddAction(RerunActionRows)
    \/ Rebuild
    \/ Return

SpecRerun == Init /\ [][NextRerun]_vars

---------------------------------------------------------------------------
(* rebuildAllDerived: rebuildLots and the calls that follow it.  The sheet *)
(* service is modelled (IS_LOCAL false).  Of Gains_Realized the rows are   *)
(* kept; of the other derived sheets, which run wrote them last.           *)

\* the derived sheets other than Lots_Current and LotConsumes
DerivedSheets ==
    {"XIRR_Cashflows", "Gains_Realized", "Tax_Summary_FY", "Cash_Balances",
     "RBI_180_Ageing", "IND Portfolio", "US Portfolio", "QC_Equity_By_Account",
     "Sensitivity_Data"}

ViewSheets == {"IND Portfolio", "US Portfolio"}

\* a Config row
ConfigRow(class, days, exemption) ==
    [AssetClass |-> class, HoldingPeriod_LT_Days |-> days,
     LTCG_Exemption_INR |-> exemption, LTCG_Tax_Rate |-> "LTCG rate",
     STCG_Tax_Rate |-> "STCG rate"]

\* the Config tables tried: no row for the asset class, long term from 1 day,
\* long term from 2 days
Configs ==
    {<<>>, <<ConfigRow("EQUITY", NumCell(1), NumCell(1000))>>,
     <<ConfigRow("EQUITY", NumCell(2), NumCell(1000))>>}

\* Object.fromEntries(readTable("Config").map(t => [t.AssetClass, t])): the
\* last row of a class wins
tax(config, class) ==
    LET f[i \in 0..Len(config)] ==
            IF i = 0 THEN <<>>
            ELSE IF config[i].AssetClass = class THEN <<config[i]>> ELSE f[i - 1]
    IN  f[Len(config)]

\* Math.floor((b - a) / (1000 * 60 * 60 * 24)), a and b in milliseconds
daysBetween(a, b) == (b - a) \div (1000 * 60 * 60 * 24)

\* the financial year of a date in milliseconds, as <<first year, second year>>:
\* getFullYear and getMonth by the civil calendar, April starts the year
fyFromDate(d) ==
    LET z == (d \div 86400000) + 719468
        era == z \div 146097
        doe == z - era * 146097
        yoe == (doe - (doe \div 1460) + (doe \div 36524) - (doe \div 146096)) \div 365
        doy == doe - (365 * yoe + (yoe \div 4) - (yoe \div 100))
        mp == (5 * doy + 2) \div 153
        getMonth == IF mp < 10 THEN mp + 2 ELSE mp - 10
        y == yoe + era * 400 + (IF getMonth <= 1 THEN 1 ELSE 0)
    IN  IF getMonth >= 3 THEN <<y, y + 1>> ELSE <<y - 1, y>>

\* a long-term test that asks for more days than the holding period
GainTypeStrict(holding, rule) ==
    IF Gt(Num(holding), Number(rule.HoldingPeriod_LT_Days)) THEN "LTCG" ELSE "STCG"

\* holding >= rule.HoldingPeriod_LT_Days ? "LTCG" : "STCG"
GainType(holding, rule) ==
    IF Ge(Num(holding), Number(rule.HoldingPeriod_LT_Days)) THEN "LTCG" ELSE "STCG"

\* the row computeRealizedGains makes of the LotConsumes row c
GainOf(c, config) ==
    LET buy == NewDate(c.BuyDate)
        sell == NewDate(c.SellDate)
        holding == daysBetween(buy, sell)
        asset == secs[c.SecurityId].AssetClass
        rule == tax(config, asset)[1]
    IN  [OwnerId |-> c.OwnerId, SecurityId |-> c.SecurityId, LotId |-> c.LotId,
         BuyDate |-> c.BuyDate, SellDate |-> c.SellDate, Quantity |-> c.Quantity,
         CostINR |-> c.CostINR, ProceedsINR |-> c.ProceedsINR,
         GainINR |-> Sub(c.ProceedsINR, c.CostINR), HoldingDays |-> holding,
         GainType |-> GainType(holding, rule), AssetClass |-> asset,
         FinancialYear |-> fyFromDate(sell)]

\* secs[c.SecurityId] or tax[asset] is undefined for some row: a TypeError
GainsThrow(rows, config) ==
    \E i \in 1..Len(rows) :
        \/ Undefined(rows[i].SecurityId)
        \/ tax(config, secs[rows[i].SecurityId].AssetClass) = <<>>

\* the rows of Gains_Realized before the first run
PreviousGains ==
    <<[OwnerId |-> "A", SecurityId |-> "X", LotId |-> 0, BuyDate |-> 0,
       SellDate |-> 0, Quantity |-> Num(1), CostINR |-> Num(800),
       ProceedsINR |-> Num(1230), GainINR |-> Num(430), HoldingDays |-> 0,
       GainType |-> "STCG", AssetClass |-> "EQUITY", FinancialYear |-> <<1969, 1970>>]>>

\* the ledger machine's part of the first state
InitLedger ==
    /\ Trades = <<>>
    /\ LotActions = <<>>
    /\ Lots_Current = PreviousLots
    /\ LotConsumes = PreviousConsumes
    /\ pc = "idle"
    /\ events = <<>>
    /\ cursor = 1
    /\ lots = <<>>
    /\ consumes = <<>>
    /\ lotSeq = 1
    /\ consumeSeq = 1
    /\ run = 0
    /\ Gains_Realized = PreviousGains
    /\ writtenIn = [t \in DerivedSheets |-> 0]
    /\ returned = 0
    /\ Tax_Summary_FY = <<>>
    /\ CashMovements = <<>>
    /\ RBI_180_Ageing = <<>>

InitDerived ==
    /\ InitLedger
    /\ Config \in Configs
    /\ viewSheets \in SUBSET ViewSheets

ledgerVars ==
    <<Trades, LotActions, Lots_Current, LotConsumes, events, cursor, lots,
      consumes, lotSeq, consumeSeq, run>>

\* rows.length > 0 in rebuildXIRRCashflows: a trade of a known security, or an
\* open lot (whose representative security is known)
XIRRRows ==
    \/ \E i \in 1..Len(Trades) : ~Undefined(Trades[i].SecurityId)
    \/ \E i \in 1..Len(Lots_Current) :
          /\ Gt(Lots_Current[i].OpenQty, Zero)
          /\ ~Undefined(Lots_Current[i].SecurityId)

\* rebuildXIRRCashflows(): writes the sheet unless there is no row to write
rebuildXIRRCashflows ==
    /\ pc = "done"
    /\ returned = 0
    /\ returned' = 1
    /\ writtenIn' = IF XIRRRows THEN [writtenIn EXCEPT !["XIRR_Cashflows"] = run]
                    ELSE writtenIn
    /\ UNCHANGED <<ledgerVars, cashVars, Tax_Summary_FY, pc, Config, Gains_Realized, viewSheets>>

\* a computeRealizedGains that writes the rows it could make before it throws
computeRealizedGainsWritingFirst ==
    /\ pc = "done"
    /\ returned = 1
    /\ IF GainsThrow(LotConsumes, Config)
       THEN /\ pc' = "failed"
            /\ Gains_Realized' = <<>>
            /\ writtenIn' = [writtenIn EXCEPT !["Gains_Realized"] = run]
            /\ UNCHANGED returned
       ELSE /\ Gains_Realized' =
                  [i \in 1..Len(LotConsumes) |-> GainOf(LotConsumes[i], Config)]
            /\ writtenIn' = [writtenIn EXCEPT !["Gains_Realized"] = run]
            /\ returned' = 2
            /\ UNCHANGED pc
    /\ UNCHANGED <<ledgerVars, cashVars, Tax_Summary_FY, Config, viewSheets>>

\* computeRealizedGains(): maps the LotConsumes rows, then writes; a throw in
\* the map leaves Gains_Realized as it was
computeRealizedGains ==
    /\ pc = "done"
    /\ returned = 1
    /\ IF GainsThrow(LotConsumes, Config)
       THEN /\ pc' = "failed"
            /\ UNCHANGED <<returned, Gains_Realized, writtenIn>>
       ELSE /\ Gains_Realized' =
                  [i \in 1..Len(LotConsumes) |-> GainOf(LotConsumes[i], Config)]
            /\ writtenIn' = [writtenIn EXCEPT !["Gains_Realized"] = run]
            /\ returned' = 2
            /\ UNCHANGED pc
    /\ UNCHANGED <<ledgerVars, cashVars, Tax_Summary_FY, Config, viewSheets>>

\* tax[r.AssetClass] is undefined for some group of gains: a TypeError
TaxSummaryThrows ==
    \E i \in 1..Len(Gains_Realized) : tax(Config, Gains_Realized[i].AssetClass) = <<>>

\* [g.OwnerId, g.FinancialYear, g.AssetClass, g.GainType].join("|")
TaxKey(g) == <<g.OwnerId, g.FinancialYear, g.AssetClass, g.GainType>>

\* gains.forEach(...): one entry of map per key, in the order the keys first
\* appear, GrossGainINR the running sum of the key's GainINR
TaxGroups(gains) ==
    LET f[i \in 0..Len(gains)] ==
            IF i = 0 THEN <<>>
            ELSE LET g == gains[i]
                     map == f[i - 1]
                     at == {j \in 1..Len(map) : TaxKey(map[j]) = TaxKey(g)}
                 IN  IF at = {}
                     THEN Append(map, [OwnerId |-> g.OwnerId,
                                       FinancialYear |-> g.FinancialYear,
                                       AssetClass |-> g.AssetClass,
                                       GainType |-> g.GainType,
                                       GrossGainINR |-> Add(Zero, g.GainINR)])
                     ELSE LET j == CHOOSE j \in at : TRUE
                          IN  [map EXCEPT ![j].GrossGainINR = Add(@, g.GainINR)]
    IN  f[Len(gains)]

\* an exemption that is not capped by the gross gain
ExemptUncapped(gainType, cfg, gross) ==
    IF gainType = "LTCG" THEN Number(cfg.LTCG_Exemption_INR) ELSE Zero

\* let exempt = (r.GainType === "LTCG") ? Number(cfg.LTCG_Exemption_INR) : 0;
\* exempt = Math.min(exempt, r.GrossGainINR)
Exempt(gainType, cfg, gross) ==
    MathMin(IF gainType = "LTCG" THEN Number(cfg.LTCG_Exemption_INR) ELSE Zero, gross)

\* Object.values(map).map(r => ...): the rows written to Tax_Summary_FY
TaxSummaryOf(gains, config) ==
    LET map == TaxGroups(gains)
    IN  [i \in 1..Len(map) |->
            LET r == map[i]
                cfg == tax(config, r.AssetClass)[1]
                exempt == Exempt(r.GainType, cfg, r.GrossGainINR)
            IN  [OwnerId |-> r.OwnerId, FinancialYear |-> r.FinancialYear,
                 AssetClass |-> r.AssetClass, GainType |-> r.GainType,
                 GrossGainINR |-> r.GrossGainINR, ExemptINR |-> exempt,
                 TaxableINR |-> Sub(r.GrossGainINR, exempt),
                 TaxRate |-> IF r.GainType = "LTCG" THEN cfg.LTCG_Tax_Rate
                             ELSE cfg.STCG_Tax_Rate]]

\* buildTaxSummaryByFY(): groups Gains_Realized, then writes
buildTaxSummaryByFY ==
    /\ pc = "done"
    /\ returned = 2
    /\ IF TaxSummaryThrows
       THEN /\ pc' = "failed"
            /\ UNCHANGED <<returned, writtenIn, Tax_Summary_FY>>
       ELSE /\ Tax_Summary_FY' = TaxSummaryOf(Gains_Realized, Config)
            /\ writtenIn' = [writtenIn EXCEPT !["Tax_Summary_FY"] = run]
            /\ returned' = 3
            /\ UNCHANGED pc
    /\ UNCHANGED <<ledgerVars, cashVars, Config, Gains_Realized, viewSheets>>

\* buildTaxSummaryByFY() run on its own, as the list of main functions offers
\* it: a throw leaves every sheet as it was
buildTaxSummaryByFYAlone ==
    /\ pc = "idle"
    /\ IF TaxSummaryThrows
       THEN UNCHANGED <<Tax_Summary_FY, writtenIn>>
       ELSE /\ Tax_Summary_FY' = TaxSummaryOf(Gains_Realized, Config)
            /\ writtenIn' = [writtenIn EXCEPT !["Tax_Summary_FY"] = run]
    /\ UNCHANGED <<ledgerVars, cashVars, pc, returned, Config, Gains_Realized, viewSheets>>

\* computeCashBalances(): sums the cash movements, then writes
computeCashBalances ==
    /\ pc = "done"
    /\ returned = 3
    /\ returned' = 4
    /\ writtenIn' = [writtenIn EXCEPT !["Cash_Balances"] = run]
    /\ UNCHANGED <<ledgerVars, cashVars, Tax_Summary_FY, pc, Config, Gains_Realized, viewSheets>>

\* c.IsForeignIncome === true || c.IsForeignIncome === "TRUE"; the cell is
\* written "true" or "false" for a boolean and "TRUE" for the text
IsForeignIncome(c) == c.IsForeignIncome \in {"true", "TRUE"}

\* the bucket a foreign-income movement opens
Bucket(c) ==
    [OwnerId |-> c.OwnerId, StartDate |-> NewDate(c.TxnDate),
     RemainingAmount |-> Number(c.Amount)]

\* a consumption that takes the whole outflow from the first open bucket
DrainUncapped(buckets, use) ==
    LET f[i \in 0..Len(buckets)] ==
            IF i = 0 THEN [buckets |-> buckets, use |-> use]
            ELSE LET st == f[i - 1]
                     b == st.buckets[i]
                 IN  IF Le(st.use, Zero) \/ Le(b.RemainingAmount, Zero) THEN st
                     ELSE LET m == st.use
                          IN  [buckets |-> [st.buckets EXCEPT ![i].RemainingAmount =
                                                Sub(b.RemainingAmount, m)],
                               use |-> Sub(st.use, m)]
    IN  f[Len(buckets)].buckets

\* buckets.forEach(b => ...): each bucket in array order gives up
\* Math.min(b.RemainingAmount, use) while use > 0
Drain(buckets, use) ==
    LET f[i \in 0..Len(buckets)] ==
            IF i = 0 THEN [buckets |-> buckets, use |-> use]
            ELSE LET st == f[i - 1]
                     b == st.buckets[i]
                 IN  IF Le(st.use, Zero) \/ Le(b.RemainingAmount, Zero) THEN st
                     ELSE LET m == MathMin(b.RemainingAmount, st.use)
                          IN  [buckets |-> [st.buckets EXCEPT ![i].RemainingAmount =
                                                Sub(b.RemainingAmount, m)],
                               use |-> Sub(st.use, m)]
    IN  f[Len(buckets)].buckets

\* the callback of cash.forEach for one movement
ApplyCash(buckets, c) ==
    IF IsForeignIncome(c) THEN Append(buckets, Bucket(c))
    ELSE IF Lt(Number(c.Amount), Zero) THEN Drain(buckets, Neg(Number(c.Amount)))
    ELSE buckets

\* buckets after cash.forEach over the movements in the order given
RBIBuckets(cash) ==
    LET f[i \in 0..Len(cash)] ==
            IF i = 0 THEN <<>> ELSE ApplyCash(f[i - 1], cash[i])
    IN  f[Len(cash)]

\* buckets.filter(b => b.RemainingAmount > 0).map(...): the rows written
RBIRows(buckets) ==
    LET f[i \in 0..Len(buckets)] ==
            IF i = 0 THEN <<>>
            ELSE IF Gt(buckets[i].RemainingAmount, Zero)
                 THEN Append(f[i - 1],
                             [OwnerId |-> buckets[i].OwnerId,
                              StartDate |-> buckets[i].StartDate,
                              RemainingAmount |-> buckets[i].RemainingAmount,
                              AgeDays |-> "", Status |-> ""])
                 ELSE f[i - 1]
    IN  f[Len(buckets)]

\* computeRBI180DayExposure(): sorts the movements, builds the buckets, then
\* writes
computeRBI180DayExposure ==
    /\ pc = "done"
    /\ returned = 4
    /\ returned' = 5
    /\ RBI_180_Ageing' = RBIRows(RBIBuckets(ArraySort("cash", CashMovements)))
    /\ writtenIn' = [writtenIn EXCEPT !["RBI_180_Ageing"] = run]
    /\ UNCHANGED <<ledgerVars, CashMovements, Tax_Summary_FY, pc, Config, Gains_Realized, viewSheets>>

\* computeRBI180DayExposure() run on its own, as the list of main functions
\* offers it
computeRBI180DayExposureAlone ==
    /\ pc = "idle"
    /\ RBI_180_Ageing' = RBIRows(RBIBuckets(ArraySort("cash", CashMovements)))
    /\ writtenIn' = [writtenIn EXCEPT !["RBI_180_Ageing"] = run]
    /\ UNCHANGED <<ledgerVars, CashMovements, Tax_Summary_FY, pc, returned, Config, Gains_Realized, viewSheets>>

\* a row is entered in the CashMovements sheet
AddCash(rows) ==
    /\ pc = "idle"
    /\ Len(CashMovements) < MaxRows
    /\ \E c \in rows : CashMovements' = Append(CashMovements, c)
    /\ UNCHANGED <<ledgerVars, RBI_180_Ageing, Tax_Summary_FY, pc, returned, Config, Gains_Realized, viewSheets, writtenIn>>

\* buildPortfolioSheetFromLedger_(sheetName, ...): throws when the view sheet
\* is missing, else clears its columns and fills them
buildPortfolioSheetFromLedger_(sheetName) ==
    /\ pc = "done"
    /\ returned = (IF sheetName = "IND Portfolio" THEN 5 ELSE 6)
    /\ IF sheetName \notin viewSheets
       THEN /\ pc' = "failed"
            /\ UNCHANGED <<returned, writtenIn>>
       ELSE /\ writtenIn' = [writtenIn EXCEPT ![sheetName] = run]
            /\ returned' = returned + 1
            /\ UNCHANGED pc
    /\ UNCHANGED <<ledgerVars, cashVars, Tax_Summary_FY, Config, Gains_Realized, viewSheets>>

\* buildEquityByAccountQC(): resets the sheet and writes it
buildEquityByAccountQC ==
    /\ pc = "done"
    /\ returned = 7
    /\ returned' = 8
    /\ writtenIn' = [writtenIn EXCEPT !["QC_Equity_By_Account"] = run]
    /\ UNCHANGED <<ledgerVars, cashVars, Tax_Summary_FY, pc, Config, Gains_Realized, viewSheets>>

\* buildSensitivityData(): resets the sheet and writes it
buildSensitivityData ==
    /\ pc = "done"
    /\ returned = 8
    /\ returned' = 9
    /\ writtenIn' = [writtenIn EXCEPT !["Sensitivity_Data"] = run]
    /\ UNCHANGED <<ledgerVars, cashVars, Tax_Summary_FY, pc, Config, Gains_Realized, viewSheets>>

\* a Gains_Realized row of the group (owner, financial year, class, type)
GainRow(owner, fy, class, type, gain) ==
    [OwnerId |-> owner, SecurityId |-> "X", LotId |-> 0, BuyDate |-> 0,
     SellDate |-> 0, Quantity |-> Num(1), CostINR |-> Num(800),
     ProceedsINR |-> Num(800 + gain), GainINR |-> Num(gain), HoldingDays |-> 0,
     GainType |-> type, AssetClass |-> class, FinancialYear |-> fy]

\* gains and losses of two owners in two financial years, and two rows of a
\* second asset class
GainRows ==
    {GainRow(o, fy, "EQUITY", t, g) :
        o \in {"A", "B"}, fy \in {<<1969, 1970>>, <<1970, 1971>>},
        t \in {"STCG", "LTCG"}, g \in {-300, 500}}
    \cup {GainRow("A", <<1969, 1970>>, "DEBT", t, 500) : t \in {"STCG", "LTCG"}}

\* the Gains_Realized tables tried
GainTables == UNION {[1..n -> GainRows] : n \in 0..MaxRows}

\* the Config tables tried for the summary: no exemption, an exemption of 400,
\* and both asset classes configured
TaxConfigs ==
    {<<ConfigRow("EQUITY", NumCell(1), NumCell(0))>>,
     <<ConfigRow("EQUITY", NumCell(1), NumCell(400))>>,
     <<ConfigRow("EQUITY", NumCell(1), NumCell(400)),
       ConfigRow("DEBT", NumCell(1), NumCell(100))>>}

\* the sheets as earlier runs left them, with the Gains_Realized and Config
\* tables tried
InitTax ==
    /\ Trades = <<>>
    /\ LotActions = <<>>
    /\ Lots_Current = PreviousLots
    /\ LotConsumes = PreviousConsumes
    /\ pc = "idle"
    /\ events = <<>>
    /\ cursor = 1
    /\ lots = <<>>
    /\ consumes = <<>>
    /\ lotSeq = 1
    /\ consumeSeq = 1
    /\ run = 0
    /\ Gains_Realized \in GainTables
    /\ Config \in TaxConfigs
    /\ viewSheets = {}
    /\ writtenIn = [t \in DerivedSheets |-> 0]
    /\ returned = 0
    /\ Tax_Summary_FY = <<>>
    /\ CashMovements = <<>>
    /\ RBI_180_Ageing = <<>>

NextTax == buildTaxSummaryByFYAlone

SpecTax == InitTax /\ [][NextTax]_vars

\* a CashMovements row
CashRow(date, owner, foreign, amount) ==
    [TxnDate |-> date, OwnerId |-> owner, IsForeignIncome |-> foreign,
     Amount |-> NumCell(amount)]

\* foreign income of 100 and 50, outflows of 30 and 120, for two owners on two
\* days; a deposit that is neither; a foreign-income row with a negative amount
CashRows ==
    {CashRow(d, o, "true", 100) : d \in {1, 2}, o \in {"A", "B"}}
    \cup {CashRow(d, o, "TRUE", 50) : d \in {1, 2}, o \in {"A", "B"}}
    \cup {CashRow(d, o, "false", a) : d \in {1, 2}, o \in {"A", "B"}, a \in {-30, -120}}
    \cup {CashRow(1, "A", "false", 40), CashRow(1, "A", "true", -20)}

\* the sheets as earlier runs left them, and an empty CashMovements table
InitCash ==
    /\ InitLedger
    /\ Config = <<>>
    /\ viewSheets = {}

NextCash ==
    \/ AddCash(CashRows)
    \/ computeRBI180DayExposureAlone

SpecCash == InitCash /\ [][NextCash]_vars

\* rebuildAllDerived has returned, or a call of it has thrown
ReturnAll ==
    /\ \/ pc \in {"aborted", "failed"}
       \/ pc = "done" /\ returned = 9
    /\ pc' = "idle"
    /\ returned' = 0
    /\ UNCHANGED <<ledgerVars, cashVars, Tax_Summary_FY, Config, Gains_Realized, viewSheets, writtenIn>>

\* trades that give holding periods of 0 and 1 day, and one BUY of a security
\* the directory lacks
DerivedTradeRows ==
    {Trade(1, "A", "X", "BUY", NumCell(100), NumCell(10), NumCell(80)),
     Trade(1, "A", "X", "SELL", NumCell(40), NumCell(15), NumCell(82)),
     Trade(2, "A", "X", "SELL", NumCell(40), NumCell(15), NumCell(82)),
     Trade(1, "A", "Z", "BUY", NumCell(40), NumCell(10), NumCell(80))}

rebuildAllDerived ==
    \/ Rebuild
    \/ rebuildXIRRCashflows
    \/ computeRealizedGains
    \/ buildTaxSummaryByFY
    \/ computeCashBalances
    \/ computeRBI180DayExposure
    \/ buildPortfolioSheetFromLedger_("IND Portfolio")
    \/ buildPortfolioSheetFromLedger_("US Portfolio")
    \/ buildEquityByAccountQC
    \/ buildSensitivityData
    \/ ReturnAll

NextDerived ==
    \/ AddTrade(DerivedTradeRows)
    \/ AddAction(RerunActionRows)
    \/ rebuildAllDerived

SpecDerived == InitDerived /\ [][NextDerived]_vars

---------------------------------------------------------------------------
(* Properties *)

Corporates == {"SPLIT", "BONUS", "MERGER", "CLASS_REORG"}

Disposals == {"SELL", "GIFT", "TRANSFER"}

\* the event the callback handled last
LastEvent == events[cursor - 1]

\* the callback has just handled an event of one of the given types
JustApplied(types) == pc = "replay" /\ cursor > 1 /\ LastEvent.Type \in types

\* C1: in the order of replay, event dates never decrease and, between two
\* events of one date whose types are in the priority table, the priority
\* never decreases, whatever else shares the date.
C1_ReplayOrder ==
    \A i, j \in 1..Len(events) :
        i < j =>
            /\ events[i].Date <= events[j].Date
            /\ (/\ events[i].Date = events[j].Date
                /\ events[i].Type \in DOMAIN order
                /\ events[j].Type \in DOMAIN order)
               => order[events[i].Type] <= order[events[j].Type]

\* C2: a SELL, GIFT or TRANSFER is never applied while a corporate action
\* (SPLIT, BONUS, MERGER, CLASS_REORG) of the same date is still to be applied.
C2_CorporateBeforeDisposal ==
    \A i, j \in 1..Len(events) :
        (/\ i < cursor
         /\ j >= cursor
         /\ events[i].Type \in Disposals
         /\ events[j].Type \in Corporates)
        => events[i].Date # events[j].Date

\* the owner whose lots a SELL, GIFT or TRANSFER walks
OwnerOf(e) == IF e.Type = "SELL" THEN e.Data.OwnerId ELSE e.Data.OwnerFromId

\* lot l is in the queue event e walks
InQueue(l, e) ==
    l.OwnerId = OwnerOf(e) /\ l.SecurityId = e.Data.SecurityId /\ Gt(l.OpenQty, Zero)

\* event e took the whole of a lot: a SELL or GIFT left it no quantity, a
\* TRANSFER handed it over as it was
FullyTaken(before, after, e) ==
    IF e.Type = "TRANSFER"
    THEN after = [before EXCEPT !.OwnerId = e.Data.OwnerToId,
                                !.BrokerId = e.Data.BrokerToId,
                                !.AccountId = e.Data.AccountToId]
    ELSE after.OpenQty = Zero

\* the callback handles an event of one of the given types in this step
Applying(types) ==
    pc = "replay" /\ cursor' = cursor + 1 /\ events[cursor].Type \in types

\* C3: FIFO. When a SELL, GIFT or TRANSFER changes a lot of its queue, every
\* lot of the queue with a strictly earlier acquisition date has been taken
\* whole by the same event; and when the requested quantity does not exceed
\* the open quantity of an earlier lot, no later lot is changed.
C3_FIFO ==
    [][Applying(Disposals) =>
        LET e == events[cursor]
        IN  \A k, l \in 1..Len(lots) :
                (/\ InQueue(lots[k], e)
                 /\ InQueue(lots[l], e)
                 /\ lots[k].BuyDate < lots[l].BuyDate)
                => /\ lots'[l] # lots[l] => FullyTaken(lots[k], lots'[k], e)
                   /\ Le(Number(e.Data.Quantity), lots[k].OpenQty) => lots'[l] = lots[l]
      ]_vars

\* a SELL has consumed the whole of the earlier lot and part of the later one
C3_Witness ==
    /\ JustApplied({"SELL"})
    /\ Len(lots) = 2
    /\ Len(consumes) = 2
    /\ lots[1].OwnerId = lots[2].OwnerId
    /\ lots[1].BuyDate < lots[2].BuyDate
    /\ lots[1].OpenQty = Zero
    /\ lots[2].OpenQty = Num(40)

\* C4: each record a SELL appends, for the lot it names, has Quantity =
\* used = min(lot open quantity, remaining sell quantity), CostNative and
\* CostINR = the lot's cost * used / lot open quantity, the lot's per-share
\* cost, ProceedsNative = used * sale price and ProceedsINR = ProceedsNative *
\* sale FX; the lot's quantity and both costs drop by exactly those amounts
\* and its per-share cost stays; every lot the SELL changes has a record.
C4_SellAllocation ==
    [][Applying({"SELL"}) =>
        LET d == events[cursor].Data
            old == Len(consumes)
            taken[i \in 0..(Len(consumes') - old)] ==
                IF i = 0 THEN Zero ELSE Add(taken[i - 1], consumes'[old + i].Quantity)
        IN  /\ SubSeq(consumes', 1, old) = consumes
            /\ \A i \in 1..(Len(consumes') - old) :
                  LET r == consumes'[old + i]
                      before == lots[r.LotId]
                      after == lots'[r.LotId]
                      used == MathMin(before.OpenQty, Sub(Number(d.Quantity), taken[i - 1]))
                  IN  /\ r.Quantity = used
                      /\ r.CostNative = Div(Mul(before.CostNative, used), before.OpenQty)
                      /\ r.CostINR = Div(Mul(before.CostINR, used), before.OpenQty)
                      /\ r.CostPriceNative = before.CostPriceNative
                      /\ r.ProceedsNative = Mul(used, Number(d.Price))
                      /\ r.ProceedsINR = Mul(r.ProceedsNative, Number(d.FXRateToINR))
                      /\ after.OpenQty = Sub(before.OpenQty, used)
                      /\ after.CostNative = Sub(before.CostNative, r.CostNative)
                      /\ after.CostINR = Sub(before.CostINR, r.CostINR)
                      /\ after.CostPriceNative = before.CostPriceNative
            /\ \A k \in 1..Len(lots) :
                  lots'[k] # lots[k] =>
                      \E i \in 1..(Len(consumes') - old) : consumes'[old + i].LotId = k
      ]_vars

\* BUY 100 at 10 (FX 80), then SELL 40 at 15 (FX 82)
C4_Witness ==
    /\ JustApplied({"SELL"})
    /\ Len(lots) = 1
    /\ Len(consumes) = 1
    /\ consumes[1].Quantity = Num(40)
    /\ consumes[1].CostNative = Num(400)
    /\ consumes[1].CostINR = Num(32000)
    /\ consumes[1].ProceedsNative = Num(600)
    /\ consumes[1].ProceedsINR = Num(49200)
    /\ lots[1].OpenQty = Num(60)
    /\ lots[1].CostNative = Num(600)

RECURSIVE SumNums(_)
SumNums(s) == IF s = <<>> THEN Zero ELSE Add(Head(s), SumNums(Tail(s)))

\* quantity * price over the BUY trades, and the same times the FX rate
BoughtNative ==
    SumNums([i \in 1..Len(Trades) |->
                IF Trades[i].Side = "BUY"
                THEN Mul(Number(Trades[i].Quantity), Number(Trades[i].Price))
                ELSE Zero])

BoughtINR ==
    SumNums([i \in 1..Len(Trades) |->
                IF Trades[i].Side = "BUY"
                THEN Mul(Mul(Number(Trades[i].Quantity), Number(Trades[i].Price)),
                         Number(Trades[i].FXRateToINR))
                ELSE Zero])

\* C5: once both tables are written, the native cost of the Lots_Current rows
\* plus the allocated native cost of the LotConsumes rows is quantity * price
\* over the BUY trades, and likewise in the reporting currency.
C5_CostConserved ==
    pc = "done" =>
        /\ NumEq(Add(SumNums([i \in 1..Len(Lots_Current) |-> Lots_Current[i].CostNative]),
                     SumNums([i \in 1..Len(LotConsumes) |-> LotConsumes[i].CostNative])),
                 BoughtNative)
        /\ NumEq(Add(SumNums([i \in 1..Len(Lots_Current) |-> Lots_Current[i].CostINR]),
                     SumNums([i \in 1..Len(LotConsumes) |-> LotConsumes[i].CostINR])),
                 BoughtINR)

\* C6: every lot of the lot store has per-share cost * open quantity equal
\* to its aggregate native cost, after every event.
C6_PerShareTimesQuantity ==
    \A k \in 1..Len(lots) :
        NumEq(Mul(lots[k].CostPriceNative, lots[k].OpenQty), lots[k].CostNative)

\* C7: every lot of the lot store, open or closed, has open quantity >= 0
\* at every point of the replay.
C7_QuantityNonNegative ==
    \A k \in 1..Len(lots) : Ge(lots[k].OpenQty, Zero)

\* a disposal has closed one lot and left another open
C7_Witness ==
    /\ JustApplied(Disposals)
    /\ \E k \in 1..Len(lots) : lots[k].OpenQty = Zero
    /\ \E k \in 1..Len(lots) : Gt(lots[k].OpenQty, Zero)

\* C8: a SPLIT or MERGER creates no lot and leaves the sum of aggregate
\* native cost, and of reporting cost, over the lots it affects (the open
\* lots of its security) as it was.
C8_SplitMergerConserveCost ==
    [][Applying({"SPLIT", "MERGER"}) =>
        LET d == events[cursor].Data
            Affected(k) == lots[k].SecurityId = d.SecurityId /\ Gt(lots[k].OpenQty, Zero)
            Part(ls, Field(_)) ==
                SumNums([k \in 1..Len(lots) |-> IF Affected(k) THEN Field(ls[k]) ELSE Zero])
        IN  /\ Len(lots') = Len(lots)
            /\ Part(lots', LAMBDA l : l.CostNative) = Part(lots, LAMBDA l : l.CostNative)
            /\ Part(lots', LAMBDA l : l.CostINR) = Part(lots, LAMBDA l : l.CostINR)
      ]_vars

\* a MERGER has converted a lot that carries cost
C8_Witness ==
    /\ JustApplied({"MERGER"})
    /\ \E k \in 1..Len(lots) :
          /\ lots[k].SecurityId = LastEvent.Data.SecurityToId
          /\ Gt(lots[k].CostNative, Zero)

\* the securities an event names
Referenced(e) ==
    {e.Data.SecurityId}
    \cup (IF e.Type \in {"MERGER", "CLASS_REORG"} THEN {e.Data.SecurityToId} ELSE {})

\* C9: the replay never moves past an event that names a security the
\* directory lacks (the event is neither applied nor skipped), and neither
\* table is written when there is such an event.
C9_MissingSecurityAborts ==
    \A i \in 1..Len(events) :
        (\E s \in Referenced(events[i]) : Undefined(s))
        => cursor <= i /\ pc \notin {"wrote_lots", "done"}

\* a cell that holds a text where a number belongs
NotNumeric(c) == c.t = "string"

\* some trade or action carries a non-numeric quantity, price, FX rate or ratio
MalformedInput ==
    \/ \E i \in 1..Len(Trades) :
          \/ NotNumeric(Trades[i].Quantity)
          \/ NotNumeric(Trades[i].Price)
          \/ NotNumeric(Trades[i].FXRateToINR)
    \/ \E i \in 1..Len(LotActions) :
          \/ NotNumeric(LotActions[i].Quantity)
          \/ NotNumeric(LotActions[i].SplitNumerator)
          \/ NotNumeric(LotActions[i].SplitDenominator)

\* C10: with a non-numeric quantity, price, FX rate or split ratio in the
\* input neither table is ever written, and no lot and no consumption record
\* ever has a not-a-number quantity or cost.
C10_MalformedNumberAborts ==
    /\ MalformedInput => pc \notin {"wrote_lots", "done"}
    /\ \A k \in 1..Len(lots) :
          ~IsNaN(lots[k].OpenQty) /\ ~IsNaN(lots[k].CostNative) /\ ~IsNaN(lots[k].CostINR)
    /\ \A k \in 1..Len(consumes) :
          /\ ~IsNaN(consumes[k].Quantity)
          /\ ~IsNaN(consumes[k].CostNative)
          /\ ~IsNaN(consumes[k].CostINR)

\* C11: Lots_Current and LotConsumes change only once the last event has been
\* replayed, so a replay that aborts at an event leaves both tables as they
\* were published before the rebuild started.
C11_NoWriteBeforeReplayEnds ==
    [][/\ (Lots_Current' # Lots_Current \/ LotConsumes' # LotConsumes)
            => (pc \in {"replay", "wrote_lots"} /\ cursor > Len(events))
       /\ pc' = "aborted" => UNCHANGED <<Lots_Current, LotConsumes>>
      ]_vars

\* a second rebuild has aborted after replaying an event, and the tables hold
\* the output of the first rebuild
C11_Witness ==
    /\ pc = "aborted"
    /\ run = 2
    /\ cursor > 1
    /\ lots # <<>>
    /\ Lots_Current # PreviousLots
    /\ Lots_Current # <<>>

\* C12: no partial result is visible: in every state the published
\* Lots_Current and LotConsumes either both hold what the previous rebuild
\* published or both hold the output of the current one.
C12_NoPartialResult ==
    \/ Lots_Current = PreviousLots /\ LotConsumes = PreviousConsumes
    \/ Lots_Current = finalLots(lots) /\ LotConsumes = consumes

\* C13: the published tables are a function of the input tables alone:
\* whenever a rebuild has finished, whatever the tables held before and
\* however often it ran, Lots_Current and LotConsumes are the result of
\* replaying the sorted events of Trades and LotActions from an empty store.
C13_PureFunction ==
    pc = "done" =>
        LET st == Replay(Store(<<>>, <<>>, 1, 1), NormalizeEvents(Trades, LotActions))
        IN  /\ Lots_Current = finalLots(st.lots)
            /\ LotConsumes = st.consumes

\* a second rebuild has finished and published lots and records
C13_Witness ==
    /\ pc = "done"
    /\ run = 2
    /\ Lots_Current # <<>>
    /\ LotConsumes # <<>>

\* the total open quantity of the queue event e walks
QueueTotal(e) ==
    SumNums([k \in 1..Len(lots) |-> IF InQueue(lots[k], e) THEN lots[k].OpenQty ELSE Zero])

\* the next event is a SELL, GIFT or TRANSFER that asks for more than its
\* queue holds
OverRequest ==
    /\ pc = "replay"
    /\ cursor <= Len(events)
    /\ events[cursor].Type \in Disposals
    /\ Gt(Number(events[cursor].Data.Quantity), QueueTotal(events[cursor]))

\* C14: a SELL, GIFT or TRANSFER that asks for more than its (owner-from,
\* security) queue holds completes without error, takes every lot of the
\* queue whole, so that exactly the queue's total is consumed or moved, and
\* changes no other lot; the remainder is kept nowhere.
C14_InsufficientLotsTruncated ==
    [][OverRequest =>
        LET e == events[cursor]
            total == QueueTotal(e)
            newLots == SubSeq(lots', Len(lots) + 1, Len(lots'))
            newRecs == SubSeq(consumes', Len(consumes) + 1, Len(consumes'))
        IN  /\ pc' = "replay" /\ cursor' = cursor + 1
            /\ \A k \in 1..Len(lots) :
                  IF InQueue(lots[k], e)
                  THEN FullyTaken(lots[k], lots'[k], e)
                  ELSE lots'[k] = lots[k]
            /\ SubSeq(consumes', 1, Len(consumes)) = consumes
            /\ e.Type = "SELL" =>
                  /\ newLots = <<>>
                  /\ SumNums([i \in 1..Len(newRecs) |-> newRecs[i].Quantity]) = total
            /\ e.Type = "GIFT" =>
                  /\ newRecs = <<>>
                  /\ SumNums([i \in 1..Len(newLots) |-> newLots[i].OpenQty]) = total
                  /\ \A i \in 1..Len(newLots) :
                        /\ newLots[i].OwnerId = e.Data.OwnerToId
                        /\ newLots[i].SecurityId = e.Data.SecurityId
            /\ e.Type = "TRANSFER" => newLots = <<>> /\ newRecs = <<>>
      ]_vars

\* a SELL has asked for more than its two-lot queue held: both lots are
\* closed and the records add up to less than the SELL asked for
C14_Witness ==
    /\ JustApplied({"SELL"})
    /\ Len(lots) = 2
    /\ Len(consumes) = 2
    /\ lots[1].OpenQty = Zero
    /\ lots[2].OpenQty = Zero
    /\ consumes[1].TradeId = LastEvent.Data.TradeId
    /\ consumes[2].TradeId = LastEvent.Data.TradeId
    /\ Lt(Add(consumes[1].Quantity, consumes[2].Quantity), Number(LastEvent.Data.Quantity))

\* new lot n holds the amount an event with row d moved out of lot before
\* (which the event left as after) to the destination of d: the source's
\* security, acquisition date and per-share cost, the moved quantity and the
\* source's costs in proportion
MovedOut(n, before, after, d) ==
    LET moved == Sub(before.OpenQty, after.OpenQty)
    IN  /\ n.OwnerId = d.OwnerToId
        /\ n.BrokerId = d.BrokerToId
        /\ n.AccountId = d.AccountToId
        /\ n.SecurityId = before.SecurityId
        /\ n.BuyDate = before.BuyDate
        /\ n.CostPriceNative = before.CostPriceNative
        /\ n.OpenQty = moved
        /\ n.CostNative = Div(Mul(before.CostNative, moved), before.OpenQty)
        /\ n.CostINR = Div(Mul(before.CostINR, moved), before.OpenQty)

\* C15: a GIFT spawns one lot for each lot it takes from, owned by the
\* recipient at the destination broker and account, with the source lot's
\* acquisition date and per-share cost, the moved quantity and the source's
\* native and reporting cost * moved / source open quantity; it creates no
\* consumption record.
C15_GiftLots ==
    [][Applying({"GIFT"}) =>
        LET d == events[cursor].Data
            old == Len(lots)
            taken == {k \in 1..old : lots'[k] # lots[k]}
        IN  /\ consumes' = consumes
            /\ Len(lots') = old + Cardinality(taken)
            /\ \A k \in taken :
                  /\ Gt(Sub(lots[k].OpenQty, lots'[k].OpenQty), Zero)
                  /\ \E i \in (old + 1)..Len(lots') :
                        MovedOut(lots'[i], lots[k], lots'[k], d)
            /\ \A i \in (old + 1)..Len(lots') :
                  \E k \in taken : MovedOut(lots'[i], lots[k], lots'[k], d)
      ]_vars

\* a GIFT on a later day has moved part of a lot: the recipient's lot keeps
\* the source's acquisition date
C15_Witness ==
    /\ JustApplied({"GIFT"})
    /\ Len(lots) = 2
    /\ lots[1].OwnerId = "A"
    /\ lots[1].OpenQty = Num(60)
    /\ lots[2].OwnerId = "B"
    /\ lots[2].OpenQty = Num(40)
    /\ lots[2].CostNative = Num(400)
    /\ lots[2].BuyDate = lots[1].BuyDate
    /\ lots[2].BuyDate # LastEvent.Data.ActionDate

\* new lot n is the bonus lot of lot l under a BONUS with row d
BonusOf(n, l, d) ==
    LET ratio == Div(Number(d.SplitNumerator), Number(d.SplitDenominator))
    IN  /\ n.OwnerId = l.OwnerId
        /\ n.BrokerId = l.BrokerId
        /\ n.AccountId = l.AccountId
        /\ n.SecurityId = l.SecurityId
        /\ n.OpenQty = Mul(l.OpenQty, Sub(ratio, One))
        /\ n.CostNative = Zero
        /\ n.CostPriceNative = Zero
        /\ n.CostINR = Zero
        /\ n.BuyDate = d.ActionDate

\* C16: a BONUS with ratio > 1 spawns one lot for each open lot of its
\* security, with that lot's owner, broker and account, quantity = open
\* quantity * (ratio - 1), zero aggregate, per-share and reporting cost and
\* the action date as acquisition date; with ratio <= 1 it spawns none; it
\* changes no existing lot and creates no consumption record.
C16_BonusLots ==
    [][Applying({"BONUS"}) =>
        LET d == events[cursor].Data
            ratio == Div(Number(d.SplitNumerator), Number(d.SplitDenominator))
            old == Len(lots)
            open == {k \in 1..old : lots[k].SecurityId = d.SecurityId /\ Gt(lots[k].OpenQty, Zero)}
        IN  /\ consumes' = consumes
            /\ SubSeq(lots', 1, old) = lots
            /\ Gt(ratio, One) =>
                  /\ Len(lots') = old + Cardinality(open)
                  /\ \A k \in open : \E i \in (old + 1)..Len(lots') : BonusOf(lots'[i], lots[k], d)
                  /\ \A i \in (old + 1)..Len(lots') : \E k \in open : BonusOf(lots'[i], lots[k], d)
            /\ Le(ratio, One) => Len(lots') = old
      ]_vars

\* a 2:1 BONUS on a lot of 100 bought the day before: a second lot of 100 at
\* no cost, dated at the action
C16_Witness ==
    /\ JustApplied({"BONUS"})
    /\ Len(lots) = 2
    /\ lots[1].OpenQty = Num(100)
    /\ lots[1].CostNative = Num(1000)
    /\ lots[2].OpenQty = Num(100)
    /\ lots[2].CostNative = Zero
    /\ lots[2].BuyDate = LastEvent.Data.ActionDate
    /\ lots[2].BuyDate # lots[1].BuyDate

\* lot before has been handed over whole to the destination of row d: only
\* its owner, broker and account differ
HandedOver(before, after, d) ==
    after = [before EXCEPT !.OwnerId = d.OwnerToId,
                           !.BrokerId = d.BrokerToId,
                           !.AccountId = d.AccountToId]

\* lot before has given up part of its quantity, and with it the costs of new
\* lot n; nothing else of it differs
Reduced(before, after, n) ==
    /\ Gt(n.OpenQty, Zero)
    /\ Lt(n.OpenQty, before.OpenQty)
    /\ after = [before EXCEPT !.OpenQty = Sub(before.OpenQty, n.OpenQty),
                              !.CostNative = Sub(before.CostNative, n.CostNative),
                              !.CostINR = Sub(before.CostINR, n.CostINR)]

\* C17: a TRANSFER hands a lot it takes whole over in place (same identifier,
\* quantity, costs and acquisition date; owner, broker and account become the
\* destination's) and creates no lot for it; for a lot it takes part of it
\* spawns exactly one lot at the destination with the source's acquisition
\* date and per-share cost, the moved quantity and cost = source cost * moved
\* / open quantity, and reduces the source by those amounts.
C17_TransferLots ==
    [][Applying({"TRANSFER"}) =>
        LET d == events[cursor].Data
            old == Len(lots)
            whole == {k \in 1..old : lots'[k] # lots[k] /\ lots'[k].OpenQty = lots[k].OpenQty}
            part == {k \in 1..old : lots'[k].OpenQty # lots[k].OpenQty}
        IN  /\ consumes' = consumes
            /\ Len(lots') = old + Cardinality(part)
            /\ \A k \in whole : HandedOver(lots[k], lots'[k], d)
            /\ \A k \in part :
                  \E i \in (old + 1)..Len(lots') :
                      /\ MovedOut(lots'[i], lots[k], lots'[k], d)
                      /\ Reduced(lots[k], lots'[k], lots'[i])
            /\ \A i \in (old + 1)..Len(lots') :
                  \E k \in part : MovedOut(lots'[i], lots[k], lots'[k], d)
      ]_vars

\* a TRANSFER of 100 has taken a lot of 40 whole and 60 of a lot of 100
C17_Witness ==
    /\ JustApplied({"TRANSFER"})
    /\ Len(lots) = 3
    /\ lots[1].OwnerId = "B"
    /\ lots[1].BrokerId = "b2"
    /\ lots[1].OpenQty = Num(40)
    /\ lots[1].CostNative = Num(400)
    /\ lots[2].OwnerId = "A"
    /\ lots[2].OpenQty = Num(40)
    /\ lots[3].OwnerId = "B"
    /\ lots[3].OpenQty = Num(60)
    /\ lots[3].CostNative = Num(600)
    /\ lots[3].BuyDate = lots[2].BuyDate

\* C18: FIFO matching is by security, not by asset: a SELL, GIFT or TRANSFER
\* naming security S changes no lot of another security, whatever its asset,
\* owner and acquisition date, and every lot it spawns is of security S.
C18_MatchBySecurity ==
    [][Applying(Disposals) =>
        LET d == events[cursor].Data
        IN  /\ \A k \in 1..Len(lots) :
                  lots[k].SecurityId # d.SecurityId => lots'[k] = lots[k]
            /\ \A i \in (Len(lots) + 1)..Len(lots') : lots'[i].SecurityId = d.SecurityId
      ]_vars

\* a SELL of X has consumed from the seller's lot of X while the seller holds
\* an open lot of Y, of the same asset, bought earlier
C18_Witness ==
    /\ JustApplied({"SELL"})
    /\ Len(consumes) = 1
    /\ \E k, l \in 1..Len(lots) :
          /\ lots[k].SecurityId = "Y"
          /\ lots[l].SecurityId = "X"
          /\ LastEvent.Data.SecurityId = "X"
          /\ lots[k].OwnerId = lots[l].OwnerId
          /\ lots[k].AssetId = lots[l].AssetId
          /\ lots[k].BuyDate < lots[l].BuyDate
          /\ Gt(lots[k].OpenQty, Zero)
          /\ consumes[1].LotId = lots[l].LotId

\* C19: the consumption ledger is append-only during a replay: every event
\* leaves the records already there as they are and in place; only a SELL
\* adds records, each for a lot of its queue from which it took a positive
\* quantity, and no two of them for the same lot.
C19_LedgerAppendOnly ==
    [][(pc = "replay" /\ cursor' = cursor + 1) =>
        LET e == events[cursor]
            old == Len(consumes)
            new == (old + 1)..Len(consumes')
        IN  /\ Len(consumes') >= old
            /\ SubSeq(consumes', 1, old) = consumes
            /\ e.Type # "SELL" => consumes' = consumes
            /\ \A i \in new :
                  /\ consumes'[i].TradeId = e.Data.TradeId
                  /\ Gt(consumes'[i].Quantity, Zero)
                  /\ \E k \in 1..Len(lots) :
                        /\ lots[k].LotId = consumes'[i].LotId
                        /\ InQueue(lots[k], e)
                        /\ consumes'[i].Quantity = Sub(lots[k].OpenQty, lots'[k].OpenQty)
            /\ \A i, j \in new : consumes'[i].LotId = consumes'[j].LotId => i = j
      ]_vars

\* a MERGER has converted a lot that an earlier SELL drew on; the record of
\* that SELL still names the old security
C19_Witness ==
    /\ JustApplied({"MERGER"})
    /\ Len(consumes) = 1
    /\ consumes[1].SecurityId = LastEvent.Data.SecurityId
    /\ \E k \in 1..Len(lots) :
          /\ lots[k].LotId = consumes[1].LotId
          /\ lots[k].SecurityId = LastEvent.Data.SecurityToId

\* C20: no event removes a lot from the lot store (every lot stays where it
\* is, under its identifier), and no event changes any field of a lot whose
\* open quantity is 0.
C20_ClosedLotsStay ==
    [][(pc = "replay" /\ cursor' = cursor + 1) =>
        /\ Len(lots') >= Len(lots)
        /\ \A k \in 1..Len(lots) :
              /\ lots'[k].LotId = lots[k].LotId
              /\ Le(lots[k].OpenQty, Zero) => lots'[k] = lots[k]
      ]_vars

\* a SPLIT has been applied to the security of a lot that a SELL had closed
C20_Witness ==
    /\ JustApplied({"SPLIT"})
    /\ Len(consumes) = 1
    /\ \E k \in 1..Len(lots) :
          /\ lots[k].OpenQty = Zero
          /\ lots[k].SecurityId = LastEvent.Data.SecurityId
          /\ lots[k].LotId = consumes[1].LotId

\* C21: the Lots_Current table a rebuild writes holds exactly the lots of the
\* lot store whose open quantity is > 0 at the end of the replay, each once and
\* as it is in the store; no published row has a negative, zero or
\* not-a-number open quantity.
C21_PublishedLotsAreOpen ==
    pc \in {"wrote_lots", "done"} =>
        /\ \A k \in 1..Len(lots) :
              Cardinality({i \in 1..Len(Lots_Current) : Lots_Current[i] = lots[k]})
                  = IF Gt(lots[k].OpenQty, Zero) THEN 1 ELSE 0
        /\ \A i \in 1..Len(Lots_Current) :
              /\ \E k \in 1..Len(lots) : Lots_Current[i] = lots[k]
              /\ Gt(Lots_Current[i].OpenQty, Zero)
              /\ ~IsNaN(Lots_Current[i].OpenQty)

\* the tables are written while the store holds a closed lot, a lot whose
\* quantity is not a number, and an open lot
C21_Witness ==
    /\ pc = "done"
    /\ \E k \in 1..Len(lots) : lots[k].OpenQty = Zero
    /\ \E k \in 1..Len(lots) : IsNaN(lots[k].OpenQty)
    /\ Len(Lots_Current) = 1

Plain == {"BUY", "SELL", "GIFT", "TRANSFER"}

\* event number i of the replay asks for more than its queue holds when its
\* turn comes
OverRequestAt(i) ==
    LET e == events[i]
        ls == Replay(Store(<<>>, <<>>, 1, 1), SubSeq(events, 1, i - 1)).lots
        held == SumNums([k \in 1..Len(ls) |->
                            IF /\ ls[k].OwnerId = OwnerOf(e)
                               /\ ls[k].SecurityId = e.Data.SecurityId
                               /\ Gt(ls[k].OpenQty, Zero)
                            THEN ls[k].OpenQty ELSE Zero])
    IN  e.Type \in Disposals /\ Gt(Number(e.Data.Quantity), held)

\* the replay is made of BUY, SELL, GIFT and TRANSFER events only and none of
\* them asks for more than is open
PlainAndCovered ==
    \A i \in 1..Len(events) : events[i].Type \in Plain /\ ~OverRequestAt(i)

\* the quantity the input tables give owner o of security s: bought, plus
\* received by gift or transfer, minus sold, minus gifted or transferred away
NetQuantity(o, s) ==
    Add(SumNums([i \in 1..Len(Trades) |->
                    IF Trades[i].OwnerId = o /\ Trades[i].SecurityId = s
                    THEN IF Trades[i].Side = "BUY"
                         THEN Number(Trades[i].Quantity)
                         ELSE Neg(Number(Trades[i].Quantity))
                    ELSE Zero]),
        SumNums([i \in 1..Len(LotActions) |->
                    IF LotActions[i].SecurityId = s
                    THEN Sub(IF LotActions[i].OwnerToId = o
                             THEN Number(LotActions[i].Quantity) ELSE Zero,
                             IF LotActions[i].OwnerFromId = o
                             THEN Number(LotActions[i].Quantity) ELSE Zero)
                    ELSE Zero]))

\* the open quantity of owner o in security s over the rows of Lots_Current
PublishedQuantity(o, s) ==
    SumNums([i \in 1..Len(Lots_Current) |->
                IF Lots_Current[i].OwnerId = o /\ Lots_Current[i].SecurityId = s
                THEN Lots_Current[i].OpenQty ELSE Zero])

\* C22: quantity conservation. After a replay of BUY, SELL, GIFT and TRANSFER
\* events none of which asked for more than was open, the open quantity of
\* every (owner, security) over the rows of Lots_Current is what was bought
\* plus received minus sold minus given away.
C22_QuantityConserved ==
    (pc = "done" /\ PlainAndCovered) =>
        \A o \in Owners, s \in DOMAIN secs : PublishedQuantity(o, s) = NetQuantity(o, s)

\* a BUY, a SELL and a GIFT or TRANSFER to the other owner have been replayed
\* within what was open, and both owners hold lots
C22_Witness ==
    /\ pc = "done"
    /\ PlainAndCovered
    /\ \E i \in 1..Len(events) : events[i].Type = "SELL"
    /\ \E i \in 1..Len(events) : events[i].Type \in {"GIFT", "TRANSFER"}
    /\ \E i, j \in 1..Len(Lots_Current) : Lots_Current[i].OwnerId # Lots_Current[j].OwnerId

\* C24: a SELL, GIFT or TRANSFER computes its cost fraction only for the lots
\* of its queue, all of which have an open quantity > 0; a lot whose open
\* quantity is 0 (or not > 0) is skipped: the event leaves it unchanged and
\* appends no consumption record for it.
C24_NoFractionOfClosedLot ==
    [][Applying(Disposals) =>
        LET e == events[cursor]
            queue == openLotsBySecurity(lots, OwnerOf(e), e.Data.SecurityId)
        IN  /\ \A i \in 1..Len(queue) : Gt(lots[queue[i]].OpenQty, Zero)
            /\ \A k \in 1..Len(lots) :
                  ~Gt(lots[k].OpenQty, Zero) =>
                      /\ lots'[k] = lots[k]
                      /\ \A i \in (Len(consumes) + 1)..Len(consumes') :
                            consumes'[i].LotId # k
      ]_vars

\* BUY, SELL of the whole lot, then a second SELL of the same owner and
\* security: the closed lot is still as the first SELL left it
C24_Witness ==
    /\ JustApplied({"SELL"})
    /\ cursor = 4
    /\ events[2].Type = "SELL"
    /\ Len(lots) = 1
    /\ lots[1].OpenQty = Zero
    /\ lots[1].CostNative = Zero
    /\ lots[1].OwnerId = LastEvent.Data.OwnerId
    /\ lots[1].SecurityId = LastEvent.Data.SecurityId
    /\ Len(consumes) = 1

\* C26: a BUY appends exactly one lot: fresh identifier, quantity = trade
\* quantity, aggregate native cost = quantity * price, reporting cost = native
\* cost * trade FX rate, per-share cost = price, acquisition date = trade date,
\* asset identifier from the security directory, and the trade's owner, broker
\* and account; no existing lot changes and no consumption record is appended.
C26_BuyCreatesOneLot ==
    [][Applying({"BUY"}) =>
        LET d == events[cursor].Data
            new == lots'[Len(lots) + 1]
        IN  /\ Len(lots') = Len(lots) + 1
            /\ SubSeq(lots', 1, Len(lots)) = lots
            /\ consumes' = consumes
            /\ \A k \in 1..Len(lots) : lots[k].LotId # new.LotId
            /\ new.OpenQty = Number(d.Quantity)
            /\ new.CostNative = Mul(Number(d.Quantity), Number(d.Price))
            /\ new.CostINR = Mul(new.CostNative, Number(d.FXRateToINR))
            /\ new.CostPriceNative = Number(d.Price)
            /\ new.BuyFXRate = Number(d.FXRateToINR)
            /\ new.BuyDate = d.TradeDate
            /\ new.SecurityId = d.SecurityId
            /\ new.AssetId = secs[d.SecurityId].AssetId
            /\ new.OwnerId = d.OwnerId
            /\ new.BrokerId = d.BrokerId
            /\ new.AccountId = d.AccountId
      ]_vars

\* BUY 100 at 10 (FX 80) after an earlier BUY and SELL: the new lot holds 100
\* at cost 1000, 80000 in the reporting currency
C26_Witness ==
    /\ JustApplied({"BUY"})
    /\ Len(lots) = 2
    /\ Len(consumes) = 1
    /\ lots[2].OpenQty = Num(100)
    /\ lots[2].CostNative = Num(1000)
    /\ lots[2].CostINR = Num(80000)
    /\ lots[2].CostPriceNative = Num(10)
    /\ lots[2].BuyDate = LastEvent.Data.TradeDate

\* C27: a SPLIT with factor = numerator / denominator multiplies the open
\* quantity of every open lot of the named security, whoever owns it, by the
\* factor and divides its per-share cost by the factor; aggregate native and
\* reporting cost and every other field stay; no lot is created, no record
\* written, and the lots of every other security are unchanged.
C27_SplitRescales ==
    [][Applying({"SPLIT"}) =>
        LET d == events[cursor].Data
            factor == Div(Number(d.SplitNumerator), Number(d.SplitDenominator))
        IN  /\ Len(lots') = Len(lots)
            /\ consumes' = consumes
            /\ \A k \in 1..Len(lots) :
                  IF lots[k].SecurityId = d.SecurityId /\ Gt(lots[k].OpenQty, Zero)
                  THEN /\ lots'[k].OpenQty = Mul(lots[k].OpenQty, factor)
                       /\ lots'[k].CostPriceNative = Div(lots[k].CostPriceNative, factor)
                       /\ lots'[k].CostNative = lots[k].CostNative
                       /\ lots'[k].CostINR = lots[k].CostINR
                       /\ [lots'[k] EXCEPT !.OpenQty = lots[k].OpenQty,
                                           !.CostPriceNative = lots[k].CostPriceNative]
                              = lots[k]
                  ELSE lots'[k] = lots[k]
      ]_vars

\* 60 left at per-share 10 becomes 120 at per-share 5 under 2:1, cost still 600
C27_Witness ==
    /\ JustApplied({"SPLIT"})
    /\ LastEvent.Data.SplitNumerator = NumCell(2)
    /\ Len(lots) = 1
    /\ lots[1].OpenQty = Num(120)
    /\ lots[1].CostPriceNative = Num(5)
    /\ lots[1].CostNative = Num(600)
    /\ lots[1].CostINR = Num(48000)

\* C28: a MERGER with ratio = numerator / denominator changes every open lot
\* of the source security in place: security and asset identifiers become the
\* target's, open quantity becomes floor(old open quantity * ratio), aggregate
\* native and reporting cost and every other field stay, per-share cost becomes
\* aggregate native cost / new quantity; no lot is created, every other lot is
\* unchanged, and when source and target differ no open lot of the source
\* security remains.
C28_MergerConvertsInPlace ==
    [][Applying({"MERGER"}) =>
        LET d == events[cursor].Data
            ratio == Div(Number(d.SplitNumerator), Number(d.SplitDenominator))
        IN  /\ Len(lots') = Len(lots)
            /\ consumes' = consumes
            /\ \A k \in 1..Len(lots) :
                  IF lots[k].SecurityId = d.SecurityId /\ Gt(lots[k].OpenQty, Zero)
                  THEN LET newQty == MathFloor(Mul(lots[k].OpenQty, ratio))
                       IN  /\ lots'[k].SecurityId = d.SecurityToId
                           /\ lots'[k].AssetId = secs[d.SecurityToId].AssetId
                           /\ lots'[k].OpenQty = newQty
                           /\ lots'[k].CostNative = lots[k].CostNative
                           /\ lots'[k].CostINR = lots[k].CostINR
                           /\ lots'[k].CostPriceNative = Div(lots[k].CostNative, newQty)
                           /\ [lots'[k] EXCEPT !.SecurityId = lots[k].SecurityId,
                                               !.AssetId = lots[k].AssetId,
                                               !.OpenQty = lots[k].OpenQty,
                                               !.CostPriceNative = lots[k].CostPriceNative]
                                  = lots[k]
                  ELSE lots'[k] = lots[k]
            /\ d.SecurityId # d.SecurityToId =>
                  \A k \in 1..Len(lots') :
                      ~(lots'[k].SecurityId = d.SecurityId /\ Gt(lots'[k].OpenQty, Zero))
      ]_vars

\* a lot of 100 X bought at 10 has become 50 Y at per-share 20 under 1:2, cost
\* still 1000, next to a lot of Y that was there before
C28_Witness ==
    /\ JustApplied({"MERGER"})
    /\ LastEvent.Data.SecurityId # LastEvent.Data.SecurityToId
    /\ Len(lots) = 2
    /\ \E k \in 1..2 :
          /\ lots[k].SecurityId = "Y"
          /\ lots[k].OpenQty = Num(50)
          /\ lots[k].CostPriceNative = Num(20)
          /\ lots[k].CostNative = Num(1000)
          /\ lots[k].CostINR = Num(80000)
          /\ lots[3 - k].SecurityId = "Y"
          /\ lots[3 - k].OpenQty = Num(40)

\* C29: for every open lot of the source security, a CLASS_REORG with ratio =
\* numerator / denominator and costRatioNew = ratio / (1 + ratio) spawns
\* exactly one lot in the target security, with the source lot's owner, broker,
\* account and acquisition date, quantity = open quantity * ratio and cost =
\* costRatioNew * the source lot's cost (native and reporting); the source
\* lot's cost drops by that amount, its open quantity stays and its per-share
\* cost becomes reduced cost / open quantity. No other lot changes.
C29_ClassReorgSpawns ==
    [][Applying({"CLASS_REORG"}) =>
        LET d == events[cursor].Data
            ratio == Div(Number(d.SplitNumerator), Number(d.SplitDenominator))
            costRatioNew == Div(ratio, Add(One, ratio))
            src == openLotsOfSecurity(lots, d.SecurityId)
        IN  /\ Len(lots') = Len(lots) + Len(src)
            /\ consumes' = consumes
            /\ \A k \in 1..Len(lots) :
                  (\A i \in 1..Len(src) : src[i] # k) => lots'[k] = lots[k]
            /\ \A i \in 1..Len(src) :
                  LET before == lots[src[i]]
                      after == lots'[src[i]]
                      new == lots'[Len(lots) + i]
                  IN  /\ new.SecurityId = d.SecurityToId
                      /\ new.AssetId = secs[d.SecurityToId].AssetId
                      /\ new.OwnerId = before.OwnerId
                      /\ new.BrokerId = before.BrokerId
                      /\ new.AccountId = before.AccountId
                      /\ new.BuyDate = before.BuyDate
                      /\ new.OpenQty = Mul(before.OpenQty, ratio)
                      /\ new.CostNative = Mul(costRatioNew, before.CostNative)
                      /\ new.CostINR = Mul(costRatioNew, before.CostINR)
                      /\ \A k \in 1..Len(lots) : lots[k].LotId # new.LotId
                      /\ after.OpenQty = before.OpenQty
                      /\ after.CostNative = Mul(Sub(One, costRatioNew), before.CostNative)
                      /\ after.CostINR = Mul(Sub(One, costRatioNew), before.CostINR)
                      /\ after.CostPriceNative = Div(after.CostNative, after.OpenQty)
                      /\ [after EXCEPT !.CostNative = before.CostNative,
                                       !.CostINR = before.CostINR,
                                       !.CostPriceNative = before.CostPriceNative] = before
      ]_vars

\* 100 X bought at 10 on day 1 and reorganised 1:1 on day 2: 100 Y at cost 500
\* dated day 1 next to 100 X at cost 500, per-share 5
C29_Witness ==
    /\ JustApplied({"CLASS_REORG"})
    /\ LastEvent.Data.ActionDate = 2
    /\ Len(lots) = 2
    /\ lots[1].SecurityId = "X"
    /\ lots[1].OpenQty = Num(100)
    /\ lots[1].CostNative = Num(500)
    /\ lots[1].CostPriceNative = Num(5)
    /\ lots[2].SecurityId = "Y"
    /\ lots[2].OwnerId = lots[1].OwnerId
    /\ lots[2].OpenQty = Num(100)
    /\ lots[2].CostNative = Num(500)
    /\ lots[2].CostINR = Num(40000)
    /\ lots[2].BuyDate = 1

\* C30: a CLASS_REORG only redistributes cost: for every source lot, its
\* aggregate native cost after the event plus the spawned lot's native cost is
\* its native cost before the event, and the same for the reporting cost,
\* whatever the ratio.
C30_ClassReorgRedistributes ==
    [][Applying({"CLASS_REORG"}) =>
        LET src == openLotsOfSecurity(lots, events[cursor].Data.SecurityId)
        IN  /\ Len(lots') = Len(lots) + Len(src)
            /\ \A i \in 1..Len(src) :
                  LET before == lots[src[i]]
                      after == lots'[src[i]]
                      new == lots'[Len(lots) + i]
                  IN  /\ Add(after.CostNative, new.CostNative) = before.CostNative
                      /\ Add(after.CostINR, new.CostINR) = before.CostINR
      ]_vars

\* 100 X at cost 1000 reorganised 1:2: a third of the cost, which is not a
\* whole number, has gone to the new lot and two thirds stay
C30_Witness ==
    /\ JustApplied({"CLASS_REORG"})
    /\ Len(lots) = 2
    /\ lots[1].CostNative = Div(Num(2000), Num(3))
    /\ lots[2].CostNative = Div(Num(1000), Num(3))
    /\ lots[1].CostINR = Div(Num(160000), Num(3))
    /\ lots[2].CostINR = Div(Num(80000), Num(3))

\* the number of calls after rebuildLots() that come before the one that
\* writes derived sheet t
CallOf(t) ==
    CASE t = "XIRR_Cashflows" -> 0
      [] t = "Gains_Realized" -> 1
      [] t = "Tax_Summary_FY" -> 2
      [] t = "Cash_Balances" -> 3
      [] t = "RBI_180_Ageing" -> 4
      [] t = "IND Portfolio" -> 5
      [] t = "US Portfolio" -> 6
      [] t = "QC_Equity_By_Account" -> 7
      [] t = "Sensitivity_Data" -> 8

\* a call of rebuildAllDerived has thrown
Failed == pc \in {"aborted", "failed"}

\* what is published once a call has thrown: the sheets of the calls that
\* returned hold this run's contents, the sheets of the call that threw and of
\* the calls after it were not written in this run
PublishedUpToFailure ==
    /\ pc = "aborted" =>
          /\ returned = 0
          /\ \A t \in DerivedSheets : writtenIn[t] # run
    /\ pc = "failed" =>
          /\ Lots_Current = finalLots(lots)
          /\ LotConsumes = consumes
          /\ returned >= 2 =>
                Gains_Realized =
                    [i \in 1..Len(LotConsumes) |-> GainOf(LotConsumes[i], Config)]
          /\ \A t \in DerivedSheets :
                IF CallOf(t) < returned
                THEN writtenIn[t] = run \/ (t = "XIRR_Cashflows" /\ ~XIRRRows)
                ELSE writtenIn[t] # run

\* the calls run in their fixed order, a sheet is written only by its own call
\* and only when that call returns, a call that throws writes nothing, and
\* after a throw nothing is written
PublishedInOrder ==
    /\ (Lots_Current' # Lots_Current \/ LotConsumes' # LotConsumes) =>
          pc \in {"replay", "wrote_lots"} /\ returned = 0
    /\ \A t \in DerivedSheets :
          writtenIn'[t] # writtenIn[t] =>
              /\ pc = "done" /\ pc' = "done"
              /\ returned = CallOf(t) /\ returned' = returned + 1
              /\ writtenIn'[t] = run
    /\ Gains_Realized' # Gains_Realized => writtenIn'["Gains_Realized"] # writtenIn["Gains_Realized"]
    /\ returned' # returned =>
          \/ pc = "done" /\ pc' = "done" /\ returned' = returned + 1
          \/ pc' = "idle" /\ returned' = 0
    /\ (pc' # pc /\ pc' \in {"aborted", "failed"}) =>
          UNCHANGED <<Lots_Current, LotConsumes, Gains_Realized, writtenIn, returned>>
    /\ Failed => UNCHANGED <<Lots_Current, LotConsumes, Gains_Realized, writtenIn>>

\* C23: rebuildAllDerived runs rebuildLots, rebuildXIRRCashflows,
\* computeRealizedGains, buildTaxSummaryByFY and then the remaining reducers
\* and views in that fixed order, with nothing undone: when call k throws,
\* every sheet published by the calls before k keeps its new contents, and
\* call k and the calls after it publish nothing.
C23_FailureKeepsEarlierSteps ==
    []PublishedUpToFailure /\ [][PublishedInOrder]_vars

\* the second run has thrown in computeRealizedGains: the ledger and
\* XIRR_Cashflows are of the second run, Gains_Realized and Tax_Summary_FY
\* still of the first
C23_Witness ==
    /\ pc = "failed"
    /\ returned = 1
    /\ run = 2
    /\ Len(LotConsumes) >= 1
    /\ LotConsumes = consumes
    /\ Lots_Current = finalLots(lots)
    /\ writtenIn["XIRR_Cashflows"] = 2
    /\ writtenIn["Gains_Realized"] = 1
    /\ writtenIn["Tax_Summary_FY"] = 1
    /\ Gains_Realized = <<>>

\* C25: computeRealizedGains emits exactly one Gains_Realized row per
\* LotConsumes row, in order, with GainINR = ProceedsINR - CostINR and
\* GainType = LTCG exactly when the whole days from the lot's acquisition date
\* to the sale date are >= the HoldingPeriod_LT_Days of the security's asset
\* class, and STCG otherwise.
C25_OneGainPerConsume ==
    (pc = "done" /\ returned >= 2) =>
        /\ Len(Gains_Realized) = Len(LotConsumes)
        /\ \A i \in 1..Len(LotConsumes) :
              LET c == LotConsumes[i]
                  g == Gains_Realized[i]
                  days == c.SellDate - lots[c.LotId].BuyDate
                  rule == tax(Config, secs[c.SecurityId].AssetClass)[1]
              IN  /\ g.LotId = c.LotId
                  /\ g.OwnerId = c.OwnerId
                  /\ g.SecurityId = c.SecurityId
                  /\ g.Quantity = c.Quantity
                  /\ g.GainINR = Sub(c.ProceedsINR, c.CostINR)
                  /\ g.HoldingDays = days
                  /\ g.GainType = IF Ge(Num(days), Number(rule.HoldingPeriod_LT_Days))
                                  THEN "LTCG" ELSE "STCG"

\* BUY 100 on day 1, SELL 40 on day 1 and SELL 40 on day 2, long term from 1
\* day: a short-term and a long-term gain of 49200 - 32000 each
C25_Witness ==
    /\ pc = "done"
    /\ returned >= 2
    /\ Len(LotConsumes) = 2
    /\ Len(Gains_Realized) = 2
    /\ Gains_Realized[1].GainType = "STCG"
    /\ Gains_Realized[2].GainType = "LTCG"
    /\ Gains_Realized[2].HoldingDays = 1
    /\ Gains_Realized[1].GainINR = Num(17200)
    /\ Gains_Realized[2].GainINR = Num(17200)

\* C31: a GIFT or TRANSFER realizes nothing and loses nothing: over all lots of
\* the named security, of all owners, total open quantity, total native cost
\* and total reporting cost are the same before and after the event, and what
\* left the source lots is exactly what the spawned and relabelled lots carry.
C31_MovementConserves ==
    [][Applying({"GIFT", "TRANSFER"}) =>
        LET d == events[cursor].Data
            Of(ls) == {k \in 1..Len(ls) : ls[k].SecurityId = d.SecurityId}
            old == 1..Len(lots)
            spawned == (Len(lots) + 1)..Len(lots')
            relabelled == {k \in old : lots'[k] # lots[k] /\ lots'[k].OpenQty = lots[k].OpenQty}
            reduced == {k \in old : lots'[k].OpenQty # lots[k].OpenQty}
            Total(ls, ks, F(_)) ==
                SumNums([k \in 1..Len(ls) |-> IF k \in ks THEN F(ls[k]) ELSE Zero])
            Same(F(_)) ==
                /\ Total(lots', Of(lots'), F) = Total(lots, Of(lots), F)
                /\ Sub(Total(lots, reduced, F), Total(lots', reduced, F))
                      = Total(lots', spawned, F)
                /\ Total(lots', relabelled, F) = Total(lots, relabelled, F)
        IN  /\ Same(LAMBDA l : l.OpenQty)
            /\ Same(LAMBDA l : l.CostNative)
            /\ Same(LAMBDA l : l.CostINR)
            /\ consumes' = consumes
      ]_vars

\* A gives B 40 of a lot of 100 bought at 10: 60 at cost 600 stay, 40 at cost
\* 400 (32000 in the reporting currency) are B's
C31_Witness ==
    /\ JustApplied({"GIFT"})
    /\ Len(lots) = 2
    /\ lots[1].OwnerId = "A"
    /\ lots[1].OpenQty = Num(60)
    /\ lots[1].CostNative = Num(600)
    /\ lots[2].OwnerId = "B"
    /\ lots[2].OpenQty = Num(40)
    /\ lots[2].CostNative = Num(400)
    /\ lots[2].CostINR = Num(32000)

\* C32: frame of disposals. A SELL, GIFT or TRANSFER for (owner-from,
\* security) leaves every field of every lot that was there before and belongs
\* to another owner or another security unchanged; GIFT and TRANSFER leave
\* the consumption ledger unchanged.
C32_DisposalFrame ==
    [][Applying(Disposals) =>
        LET e == events[cursor]
        IN  /\ Len(lots') >= Len(lots)
            /\ \A k \in 1..Len(lots) :
                  (lots[k].OwnerId # OwnerOf(e) \/ lots[k].SecurityId # e.Data.SecurityId)
                      => lots'[k] = lots[k]
            /\ e.Type \in {"GIFT", "TRANSFER"} => consumes' = consumes
      ]_vars

\* A and B each hold a lot of X and A has sold 40 of 100: B's lot is as bought
C32_Witness ==
    /\ JustApplied({"SELL"})
    /\ Len(lots) = 2
    /\ \E k \in 1..2 :
          /\ lots[k].OwnerId = "A"
          /\ lots[k].OpenQty = Num(60)
          /\ lots[3 - k].OwnerId = "B"
          /\ lots[3 - k].SecurityId = "X"
          /\ lots[3 - k].OpenQty = Num(100)
          /\ lots[3 - k].CostNative = Num(1000)

\* rows in which an event's target is its own source: a CLASS_REORG of X into
\* X, a GIFT and a TRANSFER from A to A
SelfTradeRows ==
    {Trade(1, "A", "X", "BUY", NumCell(40), NumCell(10), NumCell(80)),
     Trade(1, "A", "X", "BUY", NumCell(100), NumCell(10), NumCell(80)),
     Trade(2, "A", "X", "SELL", NumCell(40), NumCell(15), NumCell(82)),
     Trade(1, "A", "Z", "BUY", NumCell(40), NumCell(10), NumCell(80))}

SelfActionRows ==
    {Corporate("SPLIT", 2, "X", "", <<2, 1>>),
     Corporate("BONUS", 2, "X", "", <<2, 1>>),
     Corporate("MERGER", 2, "X", "Y", <<1, 2>>),
     Corporate("CLASS_REORG", 2, "X", "X", <<1, 1>>),
     Movement("GIFT", 2, "A", "A", "X", 100),
     Movement("TRANSFER", 2, "A", "A", "X", 40)}

NextSelf ==
    \/ AddTrade(SelfTradeRows)
    \/ AddAction(SelfActionRows)
    \/ Rebuild

SpecSelf == Init /\ [][NextSelf]_vars

\* C33: a lot spawned by an event is never processed by that same event, and
\* each lot that was there before is visited at most once: a BONUS spawns at
\* most one lot per open lot it found, sized from that lot, and none from a
\* bonus lot; a CLASS_REORG into its own source reduces each lot it found once
\* and leaves the lots it spawned as spawned; a GIFT or TRANSFER to its own
\* source owner spawns lots that hold exactly what left the lots it found.
C33_SpawnedLotsNotProcessed ==
    [][Applying({"BONUS", "CLASS_REORG", "GIFT", "TRANSFER"}) =>
        LET e == events[cursor]
            d == e.Data
            n == Len(lots)
            ratio == Div(Number(d.SplitNumerator), Number(d.SplitDenominator))
            costRatioNew == Div(ratio, Add(One, ratio))
            src == IF e.Type \in {"GIFT", "TRANSFER"}
                   THEN {k \in 1..n : InQueue(lots[k], e)}
                   ELSE {k \in 1..n : lots[k].SecurityId = d.SecurityId
                                      /\ Gt(lots[k].OpenQty, Zero)}
            spawned == (n + 1)..Len(lots')
        IN  /\ Cardinality(spawned) <= Cardinality(src)
            /\ \A k \in (1..n) \ src : lots'[k] = lots[k]
            /\ e.Type = "BONUS" =>
                  /\ \A k \in 1..n : lots'[k] = lots[k]
                  /\ \A j \in spawned : \E k \in src :
                        /\ lots'[j].OpenQty = Mul(lots[k].OpenQty, Sub(ratio, One))
                        /\ lots'[j].OwnerId = lots[k].OwnerId
            /\ e.Type = "CLASS_REORG" =>
                  /\ \A k \in src :
                        /\ lots'[k].OpenQty = lots[k].OpenQty
                        /\ lots'[k].CostNative
                               = Mul(Sub(One, costRatioNew), lots[k].CostNative)
                  /\ \A j \in spawned : \E k \in src :
                        /\ lots'[j].OpenQty = Mul(lots[k].OpenQty, ratio)
                        /\ lots'[j].CostNative = Mul(costRatioNew, lots[k].CostNative)
            /\ e.Type \in {"GIFT", "TRANSFER"} =>
                  /\ \A j \in spawned : \E k \in src :
                        /\ Gt(lots'[j].OpenQty, Zero)
                        /\ lots'[j].OpenQty = Sub(lots[k].OpenQty, lots'[k].OpenQty)
                        /\ lots'[j].CostNative = Sub(lots[k].CostNative, lots'[k].CostNative)
                        /\ lots'[j].BuyDate = lots[k].BuyDate
                  /\ \A k \in src : Ge(lots'[k].OpenQty, Zero)
      ]_vars

\* A holds lots of 40 and 100 and gives 100 to A: the first lot has gone whole
\* and 60 of the second, into two new lots of 40 and 60 that the GIFT has not
\* walked
C33_Witness ==
    /\ JustApplied({"GIFT"})
    /\ LastEvent.Data.OwnerFromId = LastEvent.Data.OwnerToId
    /\ Len(lots) = 4
    /\ \E k \in 1..2 : lots[k].OpenQty = Zero /\ lots[3 - k].OpenQty = Num(40)
    /\ \E j \in 3..4 : lots[j].OpenQty = Num(40) /\ lots[7 - j].OpenQty = Num(60)
    /\ \A j \in 1..4 : lots[j].OwnerId = "A"

\* C34: within one rebuild every lot of the store has an identifier no other
\* lot has, every consumption record an identifier no other record has, a
\* lot's identifier never changes once the lot is created, and the lot
\* identifier of every consumption record names a lot of the store.
C34_IdentifiersUnique ==
    /\ [](/\ \A i, j \in 1..Len(lots) : i # j => lots[i].LotId # lots[j].LotId
          /\ \A i, j \in 1..Len(consumes) :
                i # j => consumes[i].ConsumeId # consumes[j].ConsumeId
          /\ \A i \in 1..Len(consumes) :
                \E k \in 1..Len(lots) : lots[k].LotId = consumes[i].LotId)
    /\ [][pc = "replay" =>
            /\ Len(lots') >= Len(lots)
            /\ \A k \in 1..Len(lots) : lots'[k].LotId = lots[k].LotId
         ]_vars

\* lots made by a BUY and by a GIFT, TRANSFER, BONUS or CLASS_REORG, and a
\* consumption record that names one of them
C34_Witness ==
    /\ pc = "replay"
    /\ Len(lots) = 2
    /\ Len(consumes) = 1
    /\ lots[1].LotId # lots[2].LotId
    /\ events[1].Type = "BUY"
    /\ events[2].Type \in {"GIFT", "TRANSFER", "BONUS", "CLASS_REORG"}
    /\ consumes[1].LotId \in {lots[1].LotId, lots[2].LotId}

\* C35: for every history whose securities are all in the directory the replay
\* terminates: the cursor passes each event once, in order, and once the
\* replay has started both Lots_Current and LotConsumes are eventually written
\* from the store the whole event list has been applied to.
C35_ReplayTerminates ==
    /\ (pc = "replay" /\ \A i \in 1..Len(events) : ~Throws(events[i]))
          ~> (/\ pc = "done"
              /\ cursor = Len(events) + 1
              /\ Lots_Current = finalLots(lots)
              /\ LotConsumes = consumes)
    /\ [][pc = "replay" => cursor' \in {cursor, cursor + 1} /\ events' = events]_vars

\* three events, one of them with a text where a number belongs, have been
\* replayed and both tables written
C35_Witness ==
    /\ pc = "done"
    /\ Len(events) = 3
    /\ cursor = 4
    /\ \E i \in 1..3 : events[i].Type = "BUY" /\ NotNumeric(events[i].Data.Quantity)
    /\ Lots_Current = finalLots(lots)
    /\ LotConsumes = consumes

\* the type tags the callback has a rule for
Recognized == {"BUY", "SELL", "SPLIT", "BONUS", "MERGER", "CLASS_REORG", "GIFT", "TRANSFER"}

\* C36: an event whose type tag is none of BUY, SELL, SPLIT, BONUS, MERGER,
\* CLASS_REORG, GIFT, TRANSFER raises no error and leaves the lot store, the
\* consumption ledger and both counters unchanged, and an event with a
\* recognized tag gets the effect of the one rule of its tag.
C36_UnrecognizedTagIgnored ==
    [][pc = "replay" =>
        LET e == events[cursor]
            st == Store(lots, consumes, lotSeq, consumeSeq)
            Result(next) ==
                /\ lots' = next.lots
                /\ consumes' = next.consumes
                /\ lotSeq' = next.lotSeq
                /\ consumeSeq' = next.consumeSeq
        IN  /\ (cursor <= Len(events) /\ e.Type \notin Recognized) =>
                  /\ pc' # "aborted"
                  /\ UNCHANGED <<lots, consumes, lotSeq, consumeSeq>>
            /\ cursor' = cursor + 1 =>
                  /\ e.Type = "BUY" => Result(ApplyBUY(st, e.Data))
                  /\ e.Type = "SELL" => Result(ApplySELL(st, e.Data))
                  /\ e.Type = "SPLIT" => Result(ApplySPLIT(st, e.Data))
                  /\ e.Type = "BONUS" => Result(ApplyBONUS(st, e.Data))
                  /\ e.Type = "MERGER" => Result(ApplyMERGER(st, e.Data))
                  /\ e.Type = "CLASS_REORG" => Result(ApplyCLASS_REORG(st, e.Data))
                  /\ e.Type = "GIFT" => Result(ApplyGIFT(st, e.Data))
                  /\ e.Type = "TRANSFER" => Result(ApplyTRANSFER(st, e.Data))
      ]_vars

\* a trade with an unrecognized Side, of a security the directory lacks, has
\* been passed over after a BUY: the store holds the BUY's lot and nothing else
C36_Witness ==
    /\ pc = "replay"
    /\ cursor > 2
    /\ LastEvent.Type \notin Recognized
    /\ LastEvent.Data.SecurityId = "Z"
    /\ Len(lots) = 1
    /\ lotSeq = 2
    /\ consumes = <<>>

\* C37: within one run of rebuildAllDerived, every derived table a step reads
\* (Lots_Current, LotConsumes, XIRR_Cashflows, Gains_Realized) was rewritten
\* earlier in the same run by the step that produces it, whatever the input.
C37_ReadsAreFresh ==
    [][pc = "done" =>
        LET FreshLots == Lots_Current = finalLots(lots)
            FreshConsumes == LotConsumes = consumes
            Fresh(t) == writtenIn[t] = run
        IN  \* rebuildXIRRCashflows reads Lots_Current
            /\ (returned = 0 /\ returned' = 1) => FreshLots
            \* computeRealizedGains reads LotConsumes
            /\ (returned = 1 /\ (returned' = 2 \/ pc' = "failed")) => FreshConsumes
            \* buildTaxSummaryByFY reads Gains_Realized
            /\ (returned = 2 /\ (returned' = 3 \/ pc' = "failed")) => Fresh("Gains_Realized")
            \* buildPortfolioSheetFromLedger_ reads Lots_Current and XIRR_Cashflows
            /\ (returned \in {5, 6} /\ returned' = returned + 1) =>
                  FreshLots /\ Fresh("XIRR_Cashflows")
            \* buildEquityByAccountQC and buildSensitivityData read Lots_Current
            /\ (returned \in {7, 8} /\ returned' = returned + 1) => FreshLots
      ]_vars

\* C38: buildTaxSummaryByFY emits exactly one row per distinct (owner,
\* financial year, asset class, gain type) present in Gains_Realized, whose
\* GrossGainINR is the sum of GainINR over that group and whose TaxableINR is
\* max(0, GrossGainINR - exemption), the exemption being the asset class's
\* configured LTCG exemption (>= 0) for LTCG rows and 0 for STCG rows;
\* TaxableINR is never negative.
C38_TaxSummaryPerGroup ==
    [][(pc = "idle" /\ ~TaxSummaryThrows) =>
        LET gains == Gains_Realized
            out == Tax_Summary_FY'
            keys == {TaxKey(gains[i]) : i \in 1..Len(gains)}
            Sum[i \in 0..Len(gains), k \in keys] ==
                IF i = 0 THEN Zero
                ELSE IF TaxKey(gains[i]) = k THEN Add(Sum[i - 1, k], gains[i].GainINR)
                     ELSE Sum[i - 1, k]
            Exemption(k) ==
                IF k[4] = "LTCG" THEN Number(tax(Config, k[3])[1].LTCG_Exemption_INR)
                ELSE Zero
            Max0(a) == IF Lt(a, Zero) THEN Zero ELSE a
        IN  /\ Len(out) = Cardinality(keys)
            /\ \A k \in keys : \E i \in 1..Len(out) : TaxKey(out[i]) = k
            /\ \A i \in 1..Len(out) :
                  LET k == TaxKey(out[i])
                  IN  /\ k \in keys
                      /\ Ge(Exemption(k), Zero)
                      /\ out[i].GrossGainINR = Sum[Len(gains), k]
                      /\ out[i].TaxableINR = Max0(Sub(out[i].GrossGainINR, Exemption(k)))
                      /\ Ge(out[i].TaxableINR, Zero)
      ]_vars

\* the summary written has a long-term group whose gross gain is below the
\* exemption, a group with a loss, and a group summed from two rows that is
\* taxed on what exceeds the exemption
C38_Witness ==
    /\ pc = "idle"
    /\ Len(Gains_Realized) = 3
    /\ Len(Tax_Summary_FY) = 2
    /\ Tax_Summary_FY = TaxSummaryOf(Gains_Realized, Config)
    /\ \E i, j \in 1..2 :
          /\ Tax_Summary_FY[i].GainType = "LTCG"
          /\ Tax_Summary_FY[i].GrossGainINR = Num(1000)
          /\ Tax_Summary_FY[i].TaxableINR = Num(600)
          /\ Lt(Tax_Summary_FY[j].GrossGainINR, Zero)
          /\ Tax_Summary_FY[j].TaxableINR = Zero

\* the movements in the order cash.forEach visits them
SortedCash == ArraySort("cash", CashMovements)

\* the buckets after the first k movements
BucketsAfter(k) == RBIBuckets(SubSeq(SortedCash, 1, k))

\* the k-th movement is an outflow: not foreign income, and a negative amount
Outflow(k) ==
    /\ ~IsForeignIncome(SortedCash[k])
    /\ Lt(Number(SortedCash[k].Amount), Zero)

\* every foreign-income movement has a positive amount
PositiveIncome ==
    \A k \in 1..Len(CashMovements) :
        IsForeignIncome(CashMovements[k]) => Gt(Number(CashMovements[k].Amount), Zero)

\* computeRBI180DayExposure runs on its own in this step
RBICall == pc = "idle" /\ CashMovements' = CashMovements

\* C39: in computeRBI180DayExposure, for cash movements with positive
\* foreign-income amounts, each bucket's RemainingAmount never increases and
\* never drops below 0, an outflow reduces buckets in ascending start-date
\* order and touches a later bucket only when every earlier bucket is at 0,
\* the total reduction equals min(outflow, total remaining), and the output
\* contains exactly the buckets with RemainingAmount > 0.
C39_BucketsDrainInOrder ==
    [][(RBICall /\ PositiveIncome) =>
        LET Total(bs) ==
                LET f[i \in 0..Len(bs)] ==
                        IF i = 0 THEN Zero ELSE Add(f[i - 1], bs[i].RemainingAmount)
                IN  f[Len(bs)]
            final == BucketsAfter(Len(SortedCash))
            open == {i \in 1..Len(final) : Gt(final[i].RemainingAmount, Zero)}
            out == RBI_180_Ageing'
            Row(b) == <<b.OwnerId, b.StartDate, b.RemainingAmount>>
        IN  /\ \A k \in 1..Len(SortedCash) :
                  LET b0 == BucketsAfter(k - 1)
                      b1 == BucketsAfter(k)
                  IN  /\ Len(b1) >= Len(b0)
                      /\ \A i \in 1..Len(b0) :
                            /\ b1[i].OwnerId = b0[i].OwnerId
                            /\ b1[i].StartDate = b0[i].StartDate
                            /\ Le(b1[i].RemainingAmount, b0[i].RemainingAmount)
                            /\ Ge(b1[i].RemainingAmount, Zero)
                      /\ Outflow(k) =>
                            /\ Len(b1) = Len(b0)
                            /\ \A i, j \in 1..Len(b0) :
                                  i < j =>
                                     /\ b0[i].StartDate <= b0[j].StartDate
                                     /\ b1[j].RemainingAmount # b0[j].RemainingAmount
                                           => b1[i].RemainingAmount = Zero
                            /\ Sub(Total(b0), Total(b1)) =
                                  MathMin(Neg(Number(SortedCash[k].Amount)), Total(b0))
            /\ Len(out) = Cardinality(open)
            /\ \A i \in open : \E r \in 1..Len(out) : Row(out[r]) = Row(final[i])
            /\ \A r \in 1..Len(out) : \E i \in open : Row(out[r]) = Row(final[i])
      ]_vars

\* an outflow of 120 has emptied the bucket of 100 and taken 20 from the
\* later bucket of 50: the sheet holds the one bucket left, with 30
C39_Witness ==
    /\ pc = "idle"
    /\ Len(CashMovements) = 3
    /\ PositiveIncome
    /\ Outflow(3)
    /\ Len(BucketsAfter(2)) = 2
    /\ BucketsAfter(2)[1].RemainingAmount = Num(100)
    /\ BucketsAfter(2)[2].RemainingAmount = Num(50)
    /\ BucketsAfter(3)[1].RemainingAmount = Zero
    /\ Len(RBI_180_Ageing) = 1
    /\ RBI_180_Ageing[1].RemainingAmount = Num(30)

\* C40: in computeRBI180DayExposure an outflow of one owner reduces only
\* foreign-income buckets that carry the same OwnerId; the buckets of every
\* other owner are left unchanged.
C40_OutflowStaysWithOwner ==
    [][RBICall =>
        \A k \in 1..Len(SortedCash) :
            Outflow(k) =>
                \A i \in 1..Len(BucketsAfter(k - 1)) :
                    BucketsAfter(k - 1)[i].OwnerId # SortedCash[k].OwnerId
                        => BucketsAfter(k)[i] = BucketsAfter(k - 1)[i]
      ]_vars

=============================================================================
